---- MODULE Spec2Model ----
(***************************************************************************)
(* Model of the client-side request/response flows of the code challenge   *)
(* creator front end: the multiple-choice view (MCQChallenge), the         *)
(* generation flow (ChallengeGenerator), the history panel (HistoryPanel), *)
(* the shell's quota banner (Layout) and the API client (useApi).          *)
(*                                                                         *)
(* Each component has its own specification (SpecMCQ, SpecGen, SpecHist,   *)
(* SpecBanner, SpecApi).  A component's state variables carry a prefix     *)
(* (mcq_, gen_, hist_, lay_, api_) followed by the name of the React state *)
(* they model.  An event handler runs to its first await as one step; the  *)
(* settling of each awaited promise is a further step.  React re-renders   *)
(* after every discrete event before the next one is dispatched, so every  *)
(* handler reads the state of the latest render.                           *)
(***************************************************************************)
EXTENDS Integers, Sequences, FiniteSets, TLC

VARIABLES
    \* ---- MCQChallenge ----
    mcq_challenge,             \* props.challenge: [id, correct_answer_id, nOptions]
    mcq_onAnswerSubmit,        \* whether the onAnswerSubmit prop is supplied
    mcq_selectedOption,        \* NULL or an option index
    mcq_shouldShowExplanation,
    mcq_isSubmitting,
    mcq_showHints,
    mcq_hints,                 \* sequence of hint texts
    mcq_isLoadingHint,
    mcq_hintError,             \* NoError or a message
    mcq_hintLevel,
    mcq_submitLog,             \* calls of onAnswerSubmit, in order
    mcq_submitInflight,        \* number of onAnswerSubmit promises not yet settled
    mcq_hintLog,               \* challenges/get-hint requests issued, in order
    mcq_hintInflight,          \* get-hint requests not yet settled
    \* ---- ChallengeGenerator ----
    gen_challenge,             \* NoChallenge (null) or the displayed challenge
    gen_isLoading,
    gen_isSubmitting,
    gen_error,                 \* NoMsg (null) or a message
    gen_difficulty,
    gen_topic,
    gen_quota,                 \* NULL or the quota_remaining of the last response
    gen_answerResult,          \* NoResult (null) or the validation verdict
    gen_customTopic,
    gen_isCustomTopic,
    gen_pc,                    \* where the generateChallenge call is suspended
    gen_generateCount,         \* number of challenges/generate-challenge requests issued
    gen_generateBody,          \* body of the last generate-challenge request
    gen_quotaInflight,         \* challenges/quota requests not yet settled
    gen_validateInflight,      \* challenges/validate-answer requests not yet settled
    \* ---- HistoryPanel ----
    hist_history,              \* ids of the loaded challenges, in order
    hist_isLoading,
    hist_error,                \* NoMsg (null) or a message
    hist_page,
    hist_total,
    hist_selectedChallenge,    \* NULL or the id of the expanded challenge
    hist_isExporting,
    hist_exportFormat,
    hist_bookmarks,            \* set of challenge ids
    hist_showBookmarksOnly,
    hist_filterDifficulty,     \* "" for all difficulties
    hist_searchTerm,           \* sequence of characters
    hist_sortBy,
    hist_requestCount,         \* number of challenges/my-history requests issued
    hist_lastRequest,          \* the last my-history request issued
    hist_applied,              \* the request whose response is displayed (NoRequest: none)
    hist_inflight,             \* my-history requests not yet settled
    hist_timer,                \* the debounce timer and the fetchHistory it captured
    hist_toggleCount,          \* number of bookmark requests issued
    hist_toggleInflight,       \* per challenge id, the bookmark requests not yet settled
    hist_bookmarksFetch,       \* the challenges/bookmarks request is in flight
    hist_downloads,            \* number of files downloaded and print windows opened
    hist_alert,                \* text of the last alert(), "" when none
    \* ---- Layout ----
    lay_quota,                 \* NULL or the quota_remaining of the last response
    lay_quotaInflight,         \* the challenges/quota requests not yet settled, by number
    lay_issued,                \* number of fetchQuota calls made so far
    lay_shownBy,               \* number of the request whose response is displayed (0: none)
    lay_newest,                \* highest number of a request whose response was received
    \* ---- useApi ----
    api_call,                  \* per makeRequest call: where it is and its outcome
    api_retrievalLog,          \* getToken() resolutions, in order: who asked, what came
    api_fetchLog,              \* fetch() calls, in order
    \* ---- DailyChallenge ----
    daily_data,                \* dailyData: the last daily-challenge response
    daily_isLoading,
    daily_error,               \* NoMsg for null
    daily_completed,
    daily_result,              \* the last daily-challenge/complete response
    daily_fetchInflight,       \* number of daily-challenge requests not yet settled
    daily_completeInflight,    \* bodies of the complete requests not yet settled
    \* ---- StatsDashboard ----
    stats_stats,               \* NoStats (null) or the body of the last stats response
    stats_isLoading,
    stats_error,               \* NoMsg (null) or a message
    stats_timeframe,
    stats_fetchCount,          \* number of fetchStats calls made so far
    stats_inflight,            \* the fetchStats calls not yet finished: [id, timeframe, stage]
    lastOp                     \* the last handler call or promise settlement

mcqVars == <<mcq_challenge, mcq_onAnswerSubmit, mcq_selectedOption,
             mcq_shouldShowExplanation, mcq_isSubmitting, mcq_showHints,
             mcq_hints, mcq_isLoadingHint, mcq_hintError, mcq_hintLevel,
             mcq_submitLog, mcq_submitInflight, mcq_hintLog, mcq_hintInflight>>

\* The React state of one MCQChallenge instance (what a no-op must not change).
mcqState == <<mcq_selectedOption, mcq_shouldShowExplanation, mcq_isSubmitting,
              mcq_showHints, mcq_hints, mcq_isLoadingHint, mcq_hintError,
              mcq_hintLevel>>

genVars == <<gen_challenge, gen_isLoading, gen_isSubmitting, gen_error,
             gen_difficulty, gen_topic, gen_quota, gen_answerResult,
             gen_customTopic, gen_isCustomTopic, gen_pc, gen_generateCount, gen_generateBody,
             gen_quotaInflight, gen_validateInflight>>

\* The state of HistoryPanel that the history requests read and write.
histFetchVars == <<hist_history, hist_isLoading, hist_error, hist_page, hist_total,
                   hist_filterDifficulty, hist_searchTerm, hist_sortBy,
                   hist_requestCount, hist_lastRequest, hist_inflight, hist_timer,
                   hist_applied>>

\* The state of the side flows: expansion, bookmarks and export.
histSideVars == <<hist_selectedChallenge, hist_isExporting, hist_exportFormat,
                  hist_bookmarks, hist_showBookmarksOnly, hist_toggleCount,
                  hist_toggleInflight, hist_bookmarksFetch, hist_downloads,
                  hist_alert>>

histVars == <<histFetchVars, histSideVars>>

\* The React state of HistoryPanel (what a no-op must not change).
histState == <<hist_history, hist_isLoading, hist_error, hist_page, hist_total,
               hist_selectedChallenge, hist_isExporting, hist_exportFormat,
               hist_bookmarks, hist_showBookmarksOnly, hist_filterDifficulty,
               hist_searchTerm, hist_sortBy>>

layVars == <<lay_quota, lay_quotaInflight, lay_issued, lay_shownBy, lay_newest>>

apiVars == <<api_call, api_retrievalLog, api_fetchLog>>

dailyVars == <<daily_data, daily_isLoading, daily_error, daily_completed,
               daily_result, daily_fetchInflight, daily_completeInflight>>

statsVars == <<stats_stats, stats_isLoading, stats_error, stats_timeframe,
               stats_fetchCount, stats_inflight>>

vars == <<mcqVars, genVars, histVars, layVars, apiVars, dailyVars, statsVars, lastOp>>

\* ---------------------------------------------------------------------------
\* Values and bounds
\* ---------------------------------------------------------------------------
NULL == -1                 \* JavaScript null in an integer-valued state
NoError == "null"          \* JavaScript null in a message-valued state

MaxOptions == 4            \* optionLetters has four entries
MaxHints == 3              \* requestHint stops at three held hints

MaxSubmits == 3            \* cap on the recorded onAnswerSubmit calls
MaxHintReqs == 5           \* cap on the recorded get-hint requests

HintTexts == {"hintA", "hintB"}
ErrMessages == {"", "Error: 500"}   \* err.message of a rejected promise

Op(name, arg, net) == [op |-> name, arg |-> arg, net |-> net]

\* A message is a sequence of text fragments; NoMsg stands for null and for
\* the empty string, which the code treats alike (error &&, message ||).
NoMsg == <<>>

\* String.prototype.includes on messages.
Includes(msg, needle) ==
    \E i \in 1 .. Len(msg) - Len(needle) + 1 :
        SubSeq(msg, i, i + Len(needle) - 1) = needle

\* props.challenge of an unmounted view, and the null challenge.
NoChallenge == [id |-> NULL, correct_answer_id |-> NULL, nOptions |-> 0]

\* ---------------------------------------------------------------------------
\* MCQChallenge
\* ---------------------------------------------------------------------------
Challenges ==
    [id : {42}, correct_answer_id : 0 .. MaxOptions - 1, nOptions : 2 .. MaxOptions]

InitMCQ ==
    /\ mcq_challenge \in {c \in Challenges : c.correct_answer_id < c.nOptions}
    /\ mcq_onAnswerSubmit \in BOOLEAN
    /\ mcq_selectedOption = NULL
    /\ mcq_shouldShowExplanation \in BOOLEAN      \* the showExplanation prop
    /\ mcq_isSubmitting = FALSE
    /\ mcq_showHints = FALSE
    /\ mcq_hints = <<>>
    /\ mcq_isLoadingHint = FALSE
    /\ mcq_hintError = NoError
    /\ mcq_hintLevel = 1
    /\ mcq_submitLog = <<>>
    /\ mcq_submitInflight = 0
    /\ mcq_hintLog = <<>>
    /\ mcq_hintInflight = {}

\* The guard of handleOptionSelect: the click is dropped.
SelectBlockedMutant == mcq_isSubmitting
SelectBlocked == mcq_selectedOption # NULL \/ mcq_isSubmitting

\* handleOptionSelect(index); every option div keeps its onClick in all states.
handleOptionSelect(index) ==
    /\ index \in 0 .. mcq_challenge.nOptions - 1
    /\ Len(mcq_submitLog) < MaxSubmits
    /\ IF SelectBlocked
       THEN /\ lastOp' = Op("select", index, FALSE)
            /\ UNCHANGED mcqVars
       ELSE /\ mcq_selectedOption' = index
            /\ mcq_shouldShowExplanation' = TRUE
            /\ IF mcq_onAnswerSubmit
               THEN /\ mcq_isSubmitting' = TRUE
                    /\ mcq_submitLog' = Append(mcq_submitLog,
                           [challenge_id |-> mcq_challenge.id,
                            selected_answer_index |-> index,
                            is_correct |-> (index = mcq_challenge.correct_answer_id)])
                    /\ mcq_submitInflight' = mcq_submitInflight + 1
               ELSE UNCHANGED <<mcq_isSubmitting, mcq_submitLog, mcq_submitInflight>>
            /\ lastOp' = Op("select", index, mcq_onAnswerSubmit)
            /\ UNCHANGED <<mcq_challenge, mcq_onAnswerSubmit, mcq_showHints,
                           mcq_hints, mcq_isLoadingHint, mcq_hintError,
                           mcq_hintLevel, mcq_hintLog, mcq_hintInflight>>

\* The awaited onAnswerSubmit promise settles (resolved or rejected): the
\* rejection is only logged, and the finally block clears isSubmitting.
SubmitSettlesMutant(ok) ==
    /\ mcq_submitInflight > 0
    /\ mcq_submitInflight' = mcq_submitInflight - 1
    /\ mcq_isSubmitting' = FALSE
    /\ mcq_selectedOption' = IF ok THEN mcq_selectedOption ELSE NULL
    /\ lastOp' = Op(IF ok THEN "submitResolved" ELSE "submitRejected", NULL, FALSE)
    /\ UNCHANGED <<mcq_challenge, mcq_onAnswerSubmit,
                   mcq_shouldShowExplanation, mcq_showHints, mcq_hints,
                   mcq_isLoadingHint, mcq_hintError, mcq_hintLevel,
                   mcq_submitLog, mcq_hintLog, mcq_hintInflight>>
SubmitSettles(ok) ==
    /\ mcq_submitInflight > 0
    /\ mcq_submitInflight' = mcq_submitInflight - 1
    /\ mcq_isSubmitting' = FALSE
    /\ lastOp' = Op(IF ok THEN "submitResolved" ELSE "submitRejected", NULL, FALSE)
    /\ UNCHANGED <<mcq_challenge, mcq_onAnswerSubmit, mcq_selectedOption,
                   mcq_shouldShowExplanation, mcq_showHints, mcq_hints,
                   mcq_isLoadingHint, mcq_hintError, mcq_hintLevel,
                   mcq_submitLog, mcq_hintLog, mcq_hintInflight>>

\* The hint button is rendered while nothing is selected and is disabled
\* while a hint is loading or three hints are held.
HintButtonEnabled ==
    /\ mcq_selectedOption = NULL
    /\ ~(mcq_isLoadingHint \/ Len(mcq_hints) >= MaxHints)

\* The guard of requestHint.
MaxHintsReachedMutant == Len(mcq_hints) > MaxHints
MaxHintsReached == Len(mcq_hints) >= MaxHints

\* The hint_level a get-hint request carries.
RequestedHintLevelMutant == Len(mcq_hints)
RequestedHintLevel == mcq_hintLevel

\* requestHint().  The handler is called by a click on the enabled hint
\* button, or directly once three hints are held (the "4th request"), which
\* is the case its own guard returns on.
requestHint ==
    /\ HintButtonEnabled \/ Len(mcq_hints) >= MaxHints
    /\ Len(mcq_hintLog) < MaxHintReqs
    /\ IF MaxHintsReached
       THEN /\ lastOp' = Op("requestHint", NULL, FALSE)
            /\ UNCHANGED mcqVars
       ELSE /\ mcq_isLoadingHint' = TRUE
            /\ mcq_hintError' = NoError
            /\ mcq_hintLog' = Append(mcq_hintLog,
                   [challenge_id |-> mcq_challenge.id,
                    hint_level |-> RequestedHintLevel,
                    held |-> Len(mcq_hints)])
            /\ mcq_hintInflight' = mcq_hintInflight \cup
                   {[hint_level |-> RequestedHintLevel, hints |-> mcq_hints]}
            /\ lastOp' = Op("requestHint", RequestedHintLevel, TRUE)
            /\ UNCHANGED <<mcq_challenge, mcq_onAnswerSubmit, mcq_selectedOption,
                           mcq_shouldShowExplanation, mcq_isSubmitting,
                           mcq_showHints, mcq_hints, mcq_hintLevel,
                           mcq_submitLog, mcq_submitInflight>>

\* The get-hint request r resolves with response.hint = text.  The new list
\* is built from the hints captured by the call that issued r.
HintResolved(r, text) ==
    /\ r \in mcq_hintInflight
    /\ mcq_hintInflight' = mcq_hintInflight \ {r}
    /\ mcq_hints' = Append(r.hints, text)
    /\ mcq_hintLevel' = mcq_hintLevel + 1
    /\ mcq_showHints' = TRUE
    /\ mcq_isLoadingHint' = FALSE
    /\ lastOp' = Op("hintResolved", r.hint_level, FALSE)
    /\ UNCHANGED <<mcq_challenge, mcq_onAnswerSubmit, mcq_selectedOption,
                   mcq_shouldShowExplanation, mcq_isSubmitting, mcq_hintError,
                   mcq_submitLog, mcq_submitInflight, mcq_hintLog>>

\* The get-hint request r rejects with an error whose message is msg.
HintRejectedMutant(r, msg) ==
    /\ r \in mcq_hintInflight
    /\ mcq_hintInflight' = mcq_hintInflight \ {r}
    /\ mcq_hintError' = IF msg # "" THEN msg
                        ELSE "Failed to load hint. Please try again."
    /\ mcq_hintLevel' = mcq_hintLevel + 1
    /\ mcq_isLoadingHint' = FALSE
    /\ lastOp' = Op("hintRejected", r.hint_level, FALSE)
    /\ UNCHANGED <<mcq_challenge, mcq_onAnswerSubmit, mcq_selectedOption,
                   mcq_shouldShowExplanation, mcq_isSubmitting, mcq_showHints,
                   mcq_hints, mcq_submitLog, mcq_submitInflight, mcq_hintLog>>
HintRejected(r, msg) ==
    /\ r \in mcq_hintInflight
    /\ mcq_hintInflight' = mcq_hintInflight \ {r}
    /\ mcq_hintError' = IF msg # "" THEN msg
                        ELSE "Failed to load hint. Please try again."
    /\ mcq_isLoadingHint' = FALSE
    /\ lastOp' = Op("hintRejected", r.hint_level, FALSE)
    /\ UNCHANGED <<mcq_challenge, mcq_onAnswerSubmit, mcq_selectedOption,
                   mcq_shouldShowExplanation, mcq_isSubmitting, mcq_showHints,
                   mcq_hints, mcq_hintLevel, mcq_submitLog, mcq_submitInflight,
                   mcq_hintLog>>

\* ---- What MCQChallenge renders -------------------------------------------

\* The hint error line, part of the hint section.
HintErrorShown == mcq_selectedOption = NULL /\ mcq_hintError # NoError

\* getOptionStyle(index): which of the four styles option index gets.
getOptionStyleMutant(index) ==
    IF mcq_selectedOption = NULL THEN "base"
    ELSE IF mcq_selectedOption = index
         THEN (IF index = mcq_challenge.correct_answer_id THEN "correct" ELSE "incorrect")
         ELSE "dimmed"
getOptionStyle(index) ==
    IF mcq_selectedOption = NULL THEN "base"
    ELSE IF index = mcq_challenge.correct_answer_id THEN "correct"
    ELSE IF mcq_selectedOption = index /\ index # mcq_challenge.correct_answer_id
         THEN "incorrect"
    ELSE "dimmed"

\* The "Correct" and "Incorrect" icons of option index.
CorrectIcon(index) ==
    mcq_selectedOption # NULL /\ index = mcq_challenge.correct_answer_id
IncorrectIcon(index) ==
    mcq_selectedOption = index /\ index # mcq_challenge.correct_answer_id

\* The explanation block is rendered.
ExplanationShown == mcq_shouldShowExplanation /\ mcq_selectedOption # NULL

OptionIndexes == 0 .. mcq_challenge.nOptions - 1

\* ---------------------------------------------------------------------------
\* Claims about MCQChallenge (checked under SpecMCQ)
\* ---------------------------------------------------------------------------

\* C1: an MCQChallenge instance records exactly one selection and calls the
\* answer-submission callback at most once: the first accepted click fixes
\* selectedOption, and every later click, before or after the callback
\* settles, changes no state and submits nothing.
C1_SingleSelection ==
    /\ [](/\ Len(mcq_submitLog) <= 1
          /\ mcq_submitInflight <= 1
          /\ (Len(mcq_submitLog) = 1 =>
                mcq_submitLog[1].selected_answer_index = mcq_selectedOption))
    /\ [][mcq_selectedOption # NULL =>
            /\ mcq_selectedOption' = mcq_selectedOption
            /\ mcq_submitLog' = mcq_submitLog
            /\ (lastOp'.op = "select" => UNCHANGED mcqState)]_vars

\* C1 witness: after the callback settled, a click on another option was dropped.
C1_Witness ==
    /\ lastOp.op = "select" /\ ~lastOp.net
    /\ mcq_selectedOption # NULL /\ lastOp.arg # mcq_selectedOption
    /\ Len(mcq_submitLog) = 1 /\ mcq_submitInflight = 0

\* C2: the request that fetches the nth hint carries hint_level = n, so
\* hintLevel is the number of hints held plus one in every state, and a
\* requestHint call made with three hints held issues no request.
C2_HintLevels ==
    /\ [](/\ mcq_hintLevel = Len(mcq_hints) + 1
          /\ \A i \in 1 .. Len(mcq_hintLog) :
                /\ mcq_hintLog[i].hint_level = mcq_hintLog[i].held + 1
                /\ mcq_hintLog[i].hint_level \in 1 .. MaxHints
          /\ \A r \in mcq_hintInflight : r.hint_level = Len(mcq_hints) + 1)
    /\ [][Len(mcq_hints) >= MaxHints =>
            mcq_hintLog' = mcq_hintLog /\ mcq_hintInflight' = mcq_hintInflight]_vars

\* C2 witness: three hints are held, one request had failed and was retried,
\* and a further requestHint call has returned without a request.
C2_Witness ==
    /\ Len(mcq_hints) = MaxHints
    /\ Len(mcq_hintLog) > MaxHints
    /\ lastOp.op = "requestHint" /\ ~lastOp.net

\* C8: once an option s is selected, option i is shown as correct iff it is
\* the correct answer, as incorrect iff it is s and s is wrong, and is dimmed
\* otherwise, and the explanation is shown whether s was right or wrong;
\* before any selection no option is marked.
C8_Reveal ==
    /\ mcq_selectedOption # NULL =>
         /\ \A i \in OptionIndexes :
              /\ (getOptionStyle(i) = "correct") = (i = mcq_challenge.correct_answer_id)
              /\ CorrectIcon(i) = (i = mcq_challenge.correct_answer_id)
              /\ (getOptionStyle(i) = "incorrect") =
                     (i = mcq_selectedOption /\ i # mcq_challenge.correct_answer_id)
              /\ IncorrectIcon(i) =
                     (i = mcq_selectedOption /\ i # mcq_challenge.correct_answer_id)
              /\ (i # mcq_challenge.correct_answer_id /\ i # mcq_selectedOption =>
                     getOptionStyle(i) = "dimmed")
         /\ ExplanationShown
    /\ mcq_selectedOption = NULL =>
         \A i \in OptionIndexes :
              getOptionStyle(i) = "base" /\ ~CorrectIcon(i) /\ ~IncorrectIcon(i)

\* C8 witness: a wrong pick in a view mounted with showExplanation = false,
\* with a third option that is neither the pick nor the answer.
C8_Witness ==
    /\ mcq_selectedOption # NULL
    /\ mcq_selectedOption # mcq_challenge.correct_answer_id
    /\ mcq_challenge.nOptions >= 3
    /\ lastOp.op = "select" /\ lastOp.arg = mcq_selectedOption

\* C16 as stated: an instance issues at most three get-hint requests,
\* failed ones included.
C16_AtMostThreeRequests == Len(mcq_hintLog) <= 3

\* C16 amended: an instance receives at most three hints: a get-hint request
\* is issued only while fewer than three hints are held and none is loading,
\* so at most three requests succeed; a failed request adds no hint and may
\* be repeated, so the number of requests issued has no bound of three.
C16_AtMostThreeHints ==
    /\ [](/\ Len(mcq_hints) <= MaxHints
          /\ Cardinality(mcq_hintInflight) <= 1
          /\ Len(mcq_hints) + Cardinality(mcq_hintInflight) <= MaxHints)
    /\ [][mcq_hintLog' # mcq_hintLog =>
            Len(mcq_hints) < MaxHints /\ ~mcq_isLoadingHint]_vars
    /\ [][Len(mcq_hints') > Len(mcq_hints) =>
            lastOp'.op = "hintResolved" /\ Len(mcq_hints') = Len(mcq_hints) + 1]_vars

\* C16 witness: the third hint has just arrived, after more than three
\* requests.
C16_Witness ==
    /\ Len(mcq_hints) = MaxHints
    /\ Len(mcq_hintLog) > MaxHints
    /\ lastOp.op = "hintResolved"

\* C23 amended: a failed hint request shows an inline error, leaves the
\* hints and the hint level as they were, ends loading, and leaves the hint
\* button enabled with the failed level as the one requested next.  The
\* error has no dismiss control: it is cleared only by issuing the next hint
\* request.
C23_HintFailure ==
    /\ [][lastOp'.op = "hintRejected" =>
            /\ mcq_hintError' # NoError
            /\ mcq_hints' = mcq_hints /\ mcq_hintLevel' = mcq_hintLevel
            /\ ~mcq_isLoadingHint'
            /\ RequestedHintLevel' = lastOp'.arg
            /\ (mcq_selectedOption = NULL => HintErrorShown' /\ HintButtonEnabled')]_vars
    /\ [][mcq_hintError # NoError /\ mcq_hintError' # mcq_hintError =>
            \/ lastOp'.op = "requestHint" /\ lastOp'.net /\ mcq_hintError' = NoError
            \/ lastOp'.op = "hintRejected"]_vars

\* C23 witness: with one hint held, the request for the second has failed.
C23_Witness ==
    /\ lastOp = Op("hintRejected", 2, FALSE)
    /\ HintErrorShown
    /\ Len(mcq_hints) = 1 /\ mcq_hintLevel = 2
    /\ ~mcq_isLoadingHint

\* C24: when the answer-submission callback fails the selection is not
\* rolled back: the selected option, the styles that show its correctness
\* and the explanation stay, isSubmitting is false again, and from a state
\* with a selection no click is accepted and nothing is submitted.
C24_NoRollback ==
    /\ [][lastOp'.op = "submitRejected" =>
            /\ mcq_selectedOption # NULL
            /\ mcq_selectedOption' = mcq_selectedOption
            /\ ExplanationShown'
            /\ \A i \in OptionIndexes :
                  /\ getOptionStyle(i)' = getOptionStyle(i)
                  /\ (getOptionStyle(i)' = "correct") <=>
                        (i = mcq_challenge.correct_answer_id)
            /\ ~mcq_isSubmitting'
            /\ SelectBlocked']_vars
    /\ [][mcq_selectedOption # NULL =>
            /\ SelectBlocked'
            /\ mcq_submitLog' = mcq_submitLog
            /\ mcq_submitInflight' <= mcq_submitInflight]_vars

\* C24 witness: the callback has failed for a wrong answer, which is still
\* shown as incorrect.
C24_Witness ==
    /\ lastOp.op = "submitRejected"
    /\ mcq_selectedOption # NULL
    /\ mcq_selectedOption # mcq_challenge.correct_answer_id
    /\ getOptionStyle(mcq_selectedOption) = "incorrect"
    /\ ExplanationShown /\ ~mcq_isSubmitting /\ mcq_submitInflight = 0

\* ---------------------------------------------------------------------------
\* Mounting an MCQChallenge inside a parent
\* ---------------------------------------------------------------------------

\* A fresh instance: the useState initial values for the given props.
MountMCQ(ch, cb, showExplanation) ==
    /\ mcq_challenge' = ch
    /\ mcq_onAnswerSubmit' = cb
    /\ mcq_selectedOption' = NULL
    /\ mcq_shouldShowExplanation' = showExplanation
    /\ mcq_isSubmitting' = FALSE
    /\ mcq_showHints' = FALSE
    /\ mcq_hints' = <<>>
    /\ mcq_isLoadingHint' = FALSE
    /\ mcq_hintError' = NoError
    /\ mcq_hintLevel' = 1
    /\ mcq_submitLog' = <<>>
    /\ mcq_submitInflight' = 0
    /\ mcq_hintLog' = <<>>
    /\ mcq_hintInflight' = {}

\* The parent stops rendering the view.
UnmountMCQ == MountMCQ(NoChallenge, FALSE, FALSE)

\* No view is mounted initially.
NoMCQ ==
    /\ mcq_challenge = NoChallenge
    /\ mcq_onAnswerSubmit = FALSE
    /\ mcq_selectedOption = NULL
    /\ mcq_shouldShowExplanation = FALSE
    /\ mcq_isSubmitting = FALSE
    /\ mcq_showHints = FALSE
    /\ mcq_hints = <<>>
    /\ mcq_isLoadingHint = FALSE
    /\ mcq_hintError = NoError
    /\ mcq_hintLevel = 1
    /\ mcq_submitLog = <<>>
    /\ mcq_submitInflight = 0
    /\ mcq_hintLog = <<>>
    /\ mcq_hintInflight = {}

\* ---------------------------------------------------------------------------
\* ChallengeGenerator
\* ---------------------------------------------------------------------------
MaxQuota == 1              \* quota_remaining values 0 .. MaxQuota
MaxGenerations == 2        \* cap on the recorded generation requests

GenTopics == {"Python lists", "SQL queries"}
CustomTopics == {"", "Binary trees"}
Difficulties == {"easy", "hard"}
GenChallenges == {[id |-> 1, correct_answer_id |-> 2, nOptions |-> 4],
                  [id |-> 2, correct_answer_id |-> 0, nOptions |-> 2]}

NoBody == [topic |-> "", difficulty |-> ""]

NoResult == [present |-> FALSE, is_correct |-> FALSE]
Verdicts == [present : {TRUE}, is_correct : BOOLEAN]

\* Messages of the errors a rejected request carries (see useApi below).
QuotaExceededMsg == <<"Daily ", "quota exceeded", ". Please try again tomorrow.">>
AuthFailedMsg == <<"Authentication", " failed. Please sign in again.">>
StatusMsg(status) == <<"Error: ", ToString(status)>>

\* Messages the generator shows.
DailyLimitMsg == <<"You've reached your daily limit. Please try again tomorrow.">>
SignInMsg == <<"Please sign in to generate challenges.">>
GenerateFallbackMsg == <<"Failed to generate challenge. Please try again.">>
ValidateFailedMsg == <<"Failed to validate answer. Please try again.">>

InitGen ==
    /\ gen_challenge = NoChallenge
    /\ gen_isLoading = FALSE
    /\ gen_isSubmitting = FALSE
    /\ gen_error = NoMsg
    /\ gen_difficulty = "easy"
    /\ gen_topic = "Python lists"
    /\ gen_quota = NULL
    /\ gen_answerResult = NoResult
    /\ gen_customTopic = ""
    /\ gen_isCustomTopic = FALSE
    /\ gen_pc = "idle"
    /\ gen_generateCount = 0
    /\ gen_generateBody = NoBody
    /\ gen_quotaInflight = {"mount"}      \* the mount effect has called fetchQuota
    /\ gen_validateInflight = {}

\* The disabled attribute of the generate button.
GenerateDisabledMutant ==
    gen_isLoading \/ gen_isSubmitting \/ (gen_isCustomTopic /\ gen_customTopic = "")
GenerateDisabled ==
    \/ gen_isLoading
    \/ gen_isSubmitting
    \/ gen_quota = 0
    \/ (gen_isCustomTopic /\ gen_customTopic = "")

\* The MCQChallenge of the generator is rendered.
GenChallengeShown == gen_challenge # NoChallenge /\ ~gen_isLoading

\* generateChallenge() up to its await of the generation request.
generateChallengeMutant ==
    /\ gen_isLoading' = TRUE
    /\ gen_error' = NoMsg
    /\ gen_challenge' = NoChallenge
    /\ gen_generateCount' = gen_generateCount + 1
    /\ gen_generateBody' =
           [topic |-> IF gen_isCustomTopic THEN gen_customTopic ELSE gen_topic,
            difficulty |-> gen_difficulty]
    /\ gen_pc' = "generating"
    /\ UnmountMCQ
    /\ lastOp' = Op("generate", NULL, TRUE)
    /\ UNCHANGED <<gen_isSubmitting, gen_difficulty, gen_topic, gen_quota,
                   gen_answerResult, gen_customTopic, gen_isCustomTopic,
                   gen_quotaInflight, gen_validateInflight>>
generateChallenge ==
    /\ gen_isLoading' = TRUE
    /\ gen_error' = NoMsg
    /\ gen_challenge' = NoChallenge
    /\ gen_answerResult' = NoResult
    /\ gen_generateCount' = gen_generateCount + 1
    /\ gen_generateBody' =
           [topic |-> IF gen_isCustomTopic THEN gen_customTopic ELSE gen_topic,
            difficulty |-> gen_difficulty]
    /\ gen_pc' = "generating"
    /\ UnmountMCQ
    /\ lastOp' = Op("generate", NULL, TRUE)
    /\ UNCHANGED <<gen_isSubmitting, gen_difficulty, gen_topic, gen_quota,
                   gen_customTopic, gen_isCustomTopic, gen_quotaInflight,
                   gen_validateInflight>>

\* A click on the generate button: dropped while the button is disabled.
ClickGenerate ==
    /\ gen_generateCount < MaxGenerations
    /\ IF GenerateDisabled
       THEN /\ lastOp' = Op("generate", NULL, FALSE)
            /\ UNCHANGED <<mcqVars, genVars>>
       ELSE generateChallenge

\* The generation request resolves: setChallenge, then await fetchQuota().
GenerateResolvedMutant(ch) ==
    /\ gen_pc = "generating"
    /\ gen_challenge' = ch
    /\ gen_quota' = IF gen_quota > 0 THEN gen_quota - 1 ELSE gen_quota
    /\ gen_quotaInflight' = gen_quotaInflight \cup {"generate"}
    /\ gen_pc' = "refreshing"
    /\ lastOp' = Op("generateResolved", ch.id, TRUE)
    /\ UNCHANGED <<gen_isLoading, gen_isSubmitting, gen_error, gen_difficulty,
                   gen_topic, gen_answerResult, gen_customTopic,
                   gen_isCustomTopic, gen_generateCount, gen_generateBody, gen_validateInflight>>
    /\ UNCHANGED mcqVars
GenerateResolved(ch) ==
    /\ gen_pc = "generating"
    /\ gen_challenge' = ch
    /\ gen_quotaInflight' = gen_quotaInflight \cup {"generate"}
    /\ gen_pc' = "refreshing"
    /\ lastOp' = Op("generateResolved", ch.id, TRUE)
    /\ UNCHANGED <<gen_isLoading, gen_isSubmitting, gen_error, gen_difficulty,
                   gen_topic, gen_quota, gen_answerResult, gen_customTopic,
                   gen_isCustomTopic, gen_generateCount, gen_generateBody, gen_validateInflight>>
    /\ UNCHANGED mcqVars

\* The tests of the catch block of generateChallenge on err.message.
IsQuotaError(msg) == Includes(msg, <<"quota exceeded">>) \/ Includes(msg, <<"429">>)
IsAuthErrorMutant(msg) == Includes(msg, <<"401">>)
IsAuthError(msg) == Includes(msg, <<"Authentication">>) \/ Includes(msg, <<"401">>)

\* The generation request rejects with an error whose message is msg; status
\* is the HTTP status of the response behind it (NULL when there was none).
GenerateRejectedMutant(status, msg) ==
    /\ gen_pc = "generating"
    /\ IF IsQuotaError(msg)
       THEN /\ gen_error' = DailyLimitMsg
            /\ gen_quotaInflight' = gen_quotaInflight \cup {"generate"}
            /\ gen_pc' = "refreshing"
            /\ lastOp' = Op("generateRejected", status, TRUE)
            /\ UNCHANGED gen_isLoading
       ELSE /\ gen_error' = IF IsAuthError(msg) THEN SignInMsg
                            ELSE IF msg # NoMsg THEN msg
                            ELSE GenerateFallbackMsg
            /\ gen_pc' = "idle"
            /\ lastOp' = Op("generateRejected", status, FALSE)
            /\ UNCHANGED <<gen_isLoading, gen_quotaInflight>>
    /\ UNCHANGED <<gen_challenge, gen_isSubmitting, gen_difficulty, gen_topic,
                   gen_quota, gen_answerResult, gen_customTopic,
                   gen_isCustomTopic, gen_generateCount, gen_generateBody, gen_validateInflight>>
    /\ UNCHANGED mcqVars

GenerateRejected(status, msg) ==
    /\ gen_pc = "generating"
    /\ IF IsQuotaError(msg)
       THEN /\ gen_error' = DailyLimitMsg
            /\ gen_quotaInflight' = gen_quotaInflight \cup {"generate"}
            /\ gen_pc' = "refreshing"
            /\ lastOp' = Op("generateRejected", status, TRUE)
            /\ UNCHANGED gen_isLoading
       ELSE /\ gen_error' = IF IsAuthError(msg) THEN SignInMsg
                            ELSE IF msg # NoMsg THEN msg
                            ELSE GenerateFallbackMsg
            /\ gen_isLoading' = FALSE
            /\ gen_pc' = "idle"
            /\ lastOp' = Op("generateRejected", status, FALSE)
            /\ UNCHANGED gen_quotaInflight
    /\ UNCHANGED <<gen_challenge, gen_isSubmitting, gen_difficulty, gen_topic,
                   gen_quota, gen_answerResult, gen_customTopic,
                   gen_isCustomTopic, gen_generateCount, gen_generateBody, gen_validateInflight>>
    /\ UNCHANGED mcqVars

\* fetchQuota settles.  by = "generate" is the fetch generateChallenge awaits:
\* its finally block then clears isLoading, which renders the new challenge.
QuotaSettlesMutant(by, ok, remaining) ==
    /\ by \in gen_quotaInflight
    /\ gen_quotaInflight' = gen_quotaInflight \ {by}
    /\ gen_quota' = IF ok THEN remaining ELSE gen_quota
    /\ gen_error' = IF ok THEN gen_error ELSE GenerateFallbackMsg
    /\ IF by = "generate"
       THEN /\ gen_isLoading' = FALSE
            /\ gen_pc' = "idle"
            /\ IF gen_challenge # NoChallenge
               THEN MountMCQ(gen_challenge, TRUE, FALSE)
               ELSE UNCHANGED mcqVars
       ELSE UNCHANGED <<gen_isLoading, gen_pc, mcqVars>>
    /\ lastOp' = Op(IF ok THEN "quotaResolved" ELSE "quotaRejected",
                    IF ok THEN remaining ELSE NULL, FALSE)
    /\ UNCHANGED <<gen_challenge, gen_isSubmitting, gen_difficulty,
                   gen_topic, gen_answerResult, gen_customTopic,
                   gen_isCustomTopic, gen_generateCount, gen_generateBody, gen_validateInflight>>
QuotaSettles(by, ok, remaining) ==
    /\ by \in gen_quotaInflight
    /\ gen_quotaInflight' = gen_quotaInflight \ {by}
    /\ gen_quota' = IF ok THEN remaining ELSE gen_quota
    /\ IF by = "generate"
       THEN /\ gen_isLoading' = FALSE
            /\ gen_pc' = "idle"
            /\ IF gen_challenge # NoChallenge
               THEN MountMCQ(gen_challenge, TRUE, FALSE)
               ELSE UNCHANGED mcqVars
       ELSE UNCHANGED <<gen_isLoading, gen_pc, mcqVars>>
    /\ lastOp' = Op(IF ok THEN "quotaResolved" ELSE "quotaRejected",
                    IF ok THEN remaining ELSE NULL, FALSE)
    /\ UNCHANGED <<gen_challenge, gen_isSubmitting, gen_error, gen_difficulty,
                   gen_topic, gen_answerResult, gen_customTopic,
                   gen_isCustomTopic, gen_generateCount, gen_generateBody, gen_validateInflight>>

\* The form controls; the topic, custom topic and difficulty controls are
\* disabled while loading, the mode toggle is not.
setTopic(t) ==
    /\ ~gen_isLoading /\ ~gen_isCustomTopic /\ t # gen_topic
    /\ gen_topic' = t
    /\ lastOp' = Op("setTopic", NULL, FALSE)
    /\ UNCHANGED <<gen_challenge, gen_isLoading, gen_isSubmitting, gen_error,
                   gen_difficulty, gen_quota, gen_answerResult, gen_customTopic,
                   gen_isCustomTopic, gen_pc, gen_generateCount, gen_generateBody, gen_quotaInflight,
                   gen_validateInflight>>
    /\ UNCHANGED mcqVars

setCustomTopic(t) ==
    /\ ~gen_isLoading /\ gen_isCustomTopic /\ t # gen_customTopic
    /\ gen_customTopic' = t
    /\ lastOp' = Op("setCustomTopic", NULL, FALSE)
    /\ UNCHANGED <<gen_challenge, gen_isLoading, gen_isSubmitting, gen_error,
                   gen_difficulty, gen_topic, gen_quota, gen_answerResult,
                   gen_isCustomTopic, gen_pc, gen_generateCount, gen_generateBody, gen_quotaInflight,
                   gen_validateInflight>>
    /\ UNCHANGED mcqVars

setDifficulty(d) ==
    /\ ~gen_isLoading /\ d # gen_difficulty
    /\ gen_difficulty' = d
    /\ lastOp' = Op("setDifficulty", NULL, FALSE)
    /\ UNCHANGED <<gen_challenge, gen_isLoading, gen_isSubmitting, gen_error,
                   gen_topic, gen_quota, gen_answerResult, gen_customTopic,
                   gen_isCustomTopic, gen_pc, gen_generateCount, gen_generateBody, gen_quotaInflight,
                   gen_validateInflight>>
    /\ UNCHANGED mcqVars

setIsCustomTopic(b) ==
    /\ b # gen_isCustomTopic
    /\ gen_isCustomTopic' = b
    /\ lastOp' = Op("setIsCustomTopic", NULL, FALSE)
    /\ UNCHANGED <<gen_challenge, gen_isLoading, gen_isSubmitting, gen_error,
                   gen_difficulty, gen_topic, gen_quota, gen_answerResult,
                   gen_customTopic, gen_pc, gen_generateCount, gen_generateBody, gen_quotaInflight,
                   gen_validateInflight>>
    /\ UNCHANGED mcqVars

\* The Dismiss button of the error banner.
DismissGenError ==
    /\ gen_error # NoMsg
    /\ gen_error' = NoMsg
    /\ lastOp' = Op("dismiss", NULL, FALSE)
    /\ UNCHANGED <<gen_challenge, gen_isLoading, gen_isSubmitting,
                   gen_difficulty, gen_topic, gen_quota, gen_answerResult,
                   gen_customTopic, gen_isCustomTopic, gen_pc, gen_generateCount, gen_generateBody,
                   gen_quotaInflight, gen_validateInflight>>
    /\ UNCHANGED mcqVars

\* ChallengeGenerator.handleAnswerSubmit(answerData) up to its await.
genHandleAnswerSubmit(answerData) ==
    /\ gen_isSubmitting' = TRUE
    /\ gen_error' = NoMsg
    /\ gen_validateInflight' = gen_validateInflight \cup
           {[challenge_id |-> answerData.challenge_id,
             selected_answer_index |-> answerData.selected_answer_index]}
    /\ UNCHANGED <<gen_challenge, gen_isLoading, gen_difficulty, gen_topic,
                   gen_quota, gen_answerResult, gen_customTopic,
                   gen_isCustomTopic, gen_pc, gen_generateCount, gen_generateBody, gen_quotaInflight>>

\* A click on an option of the generator's MCQChallenge; an accepted click
\* calls handleAnswerSubmit through the onAnswerSubmit prop.
GenSelectOption(index) ==
    /\ GenChallengeShown
    /\ handleOptionSelect(index)
    /\ IF SelectBlocked
       THEN UNCHANGED genVars
       ELSE genHandleAnswerSubmit(
                [challenge_id |-> mcq_challenge.id, selected_answer_index |-> index])

\* The validation request r resolves with the server's verdict.
ValidateResolved(r, verdict) ==
    /\ r \in gen_validateInflight
    /\ gen_validateInflight' = gen_validateInflight \ {r}
    /\ gen_answerResult' = verdict
    /\ gen_isSubmitting' = FALSE
    /\ SubmitSettles(TRUE)
    /\ UNCHANGED <<gen_challenge, gen_isLoading, gen_error, gen_difficulty,
                   gen_topic, gen_quota, gen_customTopic, gen_isCustomTopic,
                   gen_pc, gen_generateCount, gen_generateBody, gen_quotaInflight>>

\* The validation request r rejects; the error is rethrown to the view.
ValidateRejectedMutant(r) ==
    /\ r \in gen_validateInflight
    /\ gen_validateInflight' = gen_validateInflight \ {r}
    /\ gen_error' = ValidateFailedMsg
    /\ gen_isSubmitting' = FALSE
    /\ SubmitSettles(TRUE)
    /\ UNCHANGED <<gen_challenge, gen_isLoading, gen_difficulty, gen_topic,
                   gen_quota, gen_answerResult, gen_customTopic,
                   gen_isCustomTopic, gen_pc, gen_generateCount, gen_generateBody, gen_quotaInflight>>
ValidateRejected(r) ==
    /\ r \in gen_validateInflight
    /\ gen_validateInflight' = gen_validateInflight \ {r}
    /\ gen_error' = ValidateFailedMsg
    /\ gen_isSubmitting' = FALSE
    /\ SubmitSettles(FALSE)
    /\ UNCHANGED <<gen_challenge, gen_isLoading, gen_difficulty, gen_topic,
                   gen_quota, gen_answerResult, gen_customTopic,
                   gen_isCustomTopic, gen_pc, gen_generateCount, gen_generateBody, gen_quotaInflight>>

\* ---------------------------------------------------------------------------
\* Claims about ChallengeGenerator (checked under SpecGen)
\* ---------------------------------------------------------------------------

\* C3: whenever the displayed quota has quota_remaining = 0, or custom-topic
\* mode is on with an empty custom topic, the generate button is disabled
\* and no challenges/generate-challenge request is issued.
C3_GenerateGuard ==
    /\ [](gen_quota = 0 \/ (gen_isCustomTopic /\ gen_customTopic = "")
            => GenerateDisabled)
    /\ [][gen_quota = 0 \/ (gen_isCustomTopic /\ gen_customTopic = "")
            => gen_generateCount' = gen_generateCount]_vars

\* C3 witness: the quota response said 0 and a click on the generate button
\* was dropped, with nothing else disabling the button.
C3_Witness ==
    /\ gen_quota = 0
    /\ ~gen_isLoading /\ ~gen_isSubmitting /\ ~gen_isCustomTopic
    /\ lastOp.op = "generate" /\ ~lastOp.net

\* C11: generateChallenge clears the previous challenge and the previous
\* answer result as it issues the request, and while the generation request
\* is in flight both stay empty: no validation is pending that could set the
\* result, and no other generation that could set the challenge.
C11_ClearedWhileGenerating ==
    /\ [](gen_pc = "generating" =>
            /\ gen_challenge = NoChallenge
            /\ gen_answerResult = NoResult
            /\ gen_validateInflight = {}
            /\ gen_isLoading)
    /\ [][gen_generateCount' # gen_generateCount =>
            gen_challenge' = NoChallenge /\ gen_answerResult' = NoResult]_vars

\* C11 witness: a second generation request is in flight.
C11_Witness ==
    /\ gen_pc = "generating"
    /\ gen_generateCount = 2
    /\ lastOp = Op("generate", NULL, TRUE)

C18_RefetchAfterEveryAttempt ==
    /\ [](lastOp.op = "mount" => "mount" \in gen_quotaInflight)
    /\ [][lastOp'.op \in {"generateResolved", "generateRejected"} =>
            "generate" \in gen_quotaInflight']_vars
    /\ [][gen_quota' # gen_quota =>
            lastOp'.op = "quotaResolved" /\ gen_quota' = lastOp'.arg]_vars

\* C18 amended: the quota is fetched on mount, after every successful
\* generation and after a generation that failed as quota-exceeded; after
\* any other failure it is not fetched.  The displayed quota changes only by
\* being replaced with a quota response.
C18_QuotaRefetch ==
    /\ [](lastOp.op = "mount" => "mount" \in gen_quotaInflight)
    /\ [][lastOp'.op = "generateResolved" =>
            "generate" \in gen_quotaInflight']_vars
    /\ [][lastOp'.op = "generateRejected" =>
            (("generate" \in gen_quotaInflight') <=> (gen_error' = DailyLimitMsg))]_vars
    /\ [][gen_quota' # gen_quota =>
            lastOp'.op = "quotaResolved" /\ gen_quota' = lastOp'.arg]_vars

\* C18 witness: a generation has failed as unauthenticated, and no quota
\* request is in flight.
C18_Witness ==
    /\ lastOp.op = "generateRejected"
    /\ gen_error = SignInMsg
    /\ gen_quotaInflight = {}
    /\ gen_quota # NULL

\* C19 as stated: a failed generation shows one of four outcomes, and the
\* one for HTTP 503 is a message of its own, not the generic rendering of
\* the failure; only the quota outcome refreshes the quota.
C19_FourOutcomes ==
    lastOp.op = "generateRejected" =>
        /\ (lastOp.net <=> gen_error = DailyLimitMsg)
        /\ gen_error # StatusMsg(503)

\* C19 amended: a failed generation shows one of three outcomes, chosen by
\* the text of the error: the daily-limit message, with a quota refresh
\* awaited before loading ends; the sign-in message; or the generic one,
\* which is the error's own message, or the fallback when it has none.  A
\* 503 is generic.
C19_ThreeOutcomes ==
    lastOp.op = "generateRejected" =>
        /\ gen_error \in {DailyLimitMsg, SignInMsg, GenerateFallbackMsg,
                          StatusMsg(503), <<"Failed to fetch">>}
        /\ (lastOp.net <=> gen_error = DailyLimitMsg)
        /\ (gen_error = DailyLimitMsg =>
              "generate" \in gen_quotaInflight /\ gen_isLoading)
        /\ (gen_error # DailyLimitMsg => ~gen_isLoading)

\* C19 witness: a generation failed with a 503 that carried no detail.
C19_Witness ==
    /\ lastOp.op = "generateRejected"
    /\ gen_error = StatusMsg(503)
    /\ ~gen_isLoading

\* C22: when the quota refresh that follows a successful generation fails,
\* nothing is surfaced: the new challenge is displayed, the error message is
\* empty, loading is over and the displayed quota is what it was.
C22_RefreshFailureSwallowed ==
    [][(/\ lastOp'.op = "quotaRejected"
        /\ "generate" \in gen_quotaInflight \ gen_quotaInflight'
        /\ gen_challenge # NoChallenge) =>
            /\ gen_challenge' = gen_challenge
            /\ GenChallengeShown'
            /\ mcq_challenge' = gen_challenge
            /\ gen_error = NoMsg /\ gen_error' = NoMsg
            /\ ~gen_isLoading'
            /\ gen_quota' = gen_quota]_vars

\* C22 witness: the refresh after a successful generation has just failed
\* while the mount fetch is still pending.
C22_Witness ==
    /\ lastOp.op = "quotaRejected"
    /\ gen_quotaInflight = {"mount"}
    /\ gen_pc = "idle"
    /\ GenChallengeShown
    /\ gen_quota = NULL

\* ---------------------------------------------------------------------------
\* HistoryPanel (the version built on useCallback, with the memoized useApi,
\* whose get keeps its identity across renders)
\* ---------------------------------------------------------------------------
limit == 10                \* const limit = 10
DebounceMs == 500          \* delay of the search timer

MaxHistRequests == 5       \* cap on the my-history requests issued
MaxInflight == 3           \* cap on the my-history requests outstanding at once
MaxToggles == 3            \* cap on the bookmark requests issued
MaxDownloads == 2          \* cap on the recorded exports

HistIds == {42, 7}
HistDifficulties == {"", "easy"}
HistSorts == {"desc", "asc"}
SearchTerms == {<<>>, <<"p", " ">>}
ExportFormats == {"json", "csv", "pdf"}

\* What the server may answer to a my-history request: {challenges, total}.
HistResponses == {[challenges |-> <<>>, total |-> 0],
                  [challenges |-> <<42, 7>>, total |-> 2],
                  [challenges |-> <<42, 7>>, total |-> 25]}
HistFailureMsgs == {StatusMsg(500), NoMsg}
HistoryFallbackMsg == <<"Failed to load challenge history">>

\* String.prototype.trim on a sequence of characters.
RECURSIVE TrimLeft(_)
TrimLeft(str) ==
    IF str # <<>> /\ Head(str) = " " THEN TrimLeft(Tail(str)) ELSE str
RECURSIVE TrimRight(_)
TrimRight(str) ==
    IF str # <<>> /\ str[Len(str)] = " "
    THEN TrimRight(SubSeq(str, 1, Len(str) - 1)) ELSE str
Trim(str) == TrimRight(TrimLeft(str))

\* The offset parameter of a request for page pageNum.
OffsetOfMutant(pageNum) == pageNum
OffsetOf(pageNum) == pageNum * limit

\* The query fetchHistory(pageNum) builds from the filters f it closed over;
\* an absent difficulty or search parameter is the empty value.
HistoryRequest(seq, pageNum, f) ==
    [seq |-> seq, pageNum |-> pageNum, limit |-> limit,
     offset |-> OffsetOf(pageNum), sort |-> f.sortBy,
     difficulty |-> f.filterDifficulty, search |-> Trim(f.searchTerm)]

NoRequest == [seq |-> 0, pageNum |-> NULL, limit |-> limit, offset |-> NULL,
              sort |-> "", difficulty |-> "", search |-> <<>>]

\* The filters of the current render.
Filters == [filterDifficulty |-> hist_filterDifficulty,
            searchTerm |-> hist_searchTerm, sortBy |-> hist_sortBy]

NoTimer == [armed |-> FALSE, filters |-> [filterDifficulty |-> "",
            searchTerm |-> <<>>, sortBy |-> ""]]

\* The three effects that depend on fetchHistory, run after mount and after
\* every render in which a filter changed: two immediate fetchHistory(0) calls
\* and a fresh search timer (the cleanup clears the previous one).
RunFetchEffects(f) ==
    /\ hist_isLoading' = TRUE
    /\ hist_error' = NoMsg
    /\ hist_inflight' = hist_inflight \cup
           {HistoryRequest(hist_requestCount + 1, 0, f),
            HistoryRequest(hist_requestCount + 2, 0, f)}
    /\ hist_requestCount' = hist_requestCount + 2
    /\ hist_lastRequest' = HistoryRequest(hist_requestCount + 2, 0, f)
    /\ hist_timer' = [armed |-> TRUE, filters |-> f]

InitHist ==
    /\ hist_history = <<>>
    /\ hist_isLoading = TRUE
    /\ hist_error = NoMsg
    /\ hist_page = 0
    /\ hist_total = 0
    /\ hist_selectedChallenge = NULL
    /\ hist_isExporting = FALSE
    /\ hist_exportFormat = "json"
    /\ hist_bookmarks = {}
    /\ hist_showBookmarksOnly = FALSE
    /\ hist_filterDifficulty = ""
    /\ hist_searchTerm = <<>>
    /\ hist_sortBy = "desc"
    \* the mount effects have run: fetchBookmarks, two fetchHistory(0), the timer
    /\ hist_requestCount = 2
    /\ hist_lastRequest = HistoryRequest(2, 0, Filters)
    /\ hist_applied = NoRequest
    /\ hist_inflight = {HistoryRequest(1, 0, Filters), HistoryRequest(2, 0, Filters)}
    /\ hist_timer = [armed |-> TRUE, filters |-> Filters]
    /\ hist_toggleCount = 0
    /\ hist_toggleInflight = [id \in HistIds |-> 0]
    /\ hist_bookmarksFetch = TRUE
    /\ hist_downloads = 0
    /\ hist_alert = ""

\* Which of the three views HistoryPanel returns.
HistLoadingView == hist_isLoading /\ hist_page = 0
HistErrorView == ~HistLoadingView /\ hist_error # NoMsg
HistMainView == ~HistLoadingView /\ hist_error = NoMsg

totalPages == (hist_total + limit - 1) \div limit

\* The list the panel renders.
displayedHistoryMutant == hist_history
displayedHistory ==
    IF hist_showBookmarksOnly
    THEN SelectSeq(hist_history, LAMBDA id : id \in hist_bookmarks)
    ELSE hist_history

HistListShown == HistMainView /\ ~(displayedHistory = <<>> /\ ~hist_isLoading)
PaginationShown == HistListShown /\ totalPages > 1 /\ ~hist_showBookmarksOnly
ExportButtonShown == HistMainView /\ Len(hist_history) > 0

\* Room for n more requests within the bounds.
CanIssue(n) ==
    /\ hist_requestCount + n <= MaxHistRequests
    /\ Cardinality(hist_inflight) + n <= MaxInflight

\* fetchHistory(pageNum) of the current render, up to its await.
fetchHistory(pageNum) ==
    /\ CanIssue(1)
    /\ hist_isLoading' = TRUE
    /\ hist_error' = NoMsg
    /\ hist_inflight' = hist_inflight \cup
           {HistoryRequest(hist_requestCount + 1, pageNum, Filters)}
    /\ hist_requestCount' = hist_requestCount + 1
    /\ hist_lastRequest' = HistoryRequest(hist_requestCount + 1, pageNum, Filters)
    /\ UNCHANGED <<hist_history, hist_page, hist_total, hist_filterDifficulty,
                   hist_searchTerm, hist_sortBy, hist_timer, hist_applied>>

\* handlePageChange(newPage), from the previous, next and numbered buttons.
handlePageChange(newPage) ==
    /\ PaginationShown
    /\ \/ newPage \in 0 .. totalPages - 1
       \/ newPage = hist_page - 1 /\ hist_page # 0
       \/ newPage = hist_page + 1 /\ hist_page # totalPages - 1
    /\ fetchHistory(newPage)
    /\ lastOp' = Op("pageChange", newPage, TRUE)
    /\ UNCHANGED histSideVars

\* The Retry button of the error view.
RetryHistory ==
    /\ HistErrorView
    /\ fetchHistory(0)
    /\ lastOp' = Op("retry", 0, TRUE)
    /\ UNCHANGED histSideVars

\* A render in which the filters became f, followed by its effects.
ChangeFilters(f) ==
    /\ HistMainView
    /\ f # Filters
    /\ CanIssue(2)
    /\ hist_filterDifficulty' = f.filterDifficulty
    /\ hist_searchTerm' = f.searchTerm
    /\ hist_sortBy' = f.sortBy
    /\ RunFetchEffects(f)
    /\ UNCHANGED <<hist_history, hist_page, hist_total, hist_applied>>

handleDifficultyChange(value) ==
    /\ ChangeFilters([Filters EXCEPT !.filterDifficulty = value])
    /\ lastOp' = Op("difficultyChange", NULL, TRUE)
    /\ UNCHANGED histSideVars

handleSortChange(value) ==
    /\ ChangeFilters([Filters EXCEPT !.sortBy = value])
    /\ lastOp' = Op("sortChange", NULL, TRUE)
    /\ UNCHANGED histSideVars

handleSearchChange(value) ==
    /\ ChangeFilters([Filters EXCEPT !.searchTerm = value])
    /\ lastOp' = Op("searchChange", NULL, TRUE)
    /\ UNCHANGED histSideVars

\* The Clear Filters button, rendered while a filter is active.
clearFilters ==
    /\ HistMainView
    /\ \/ hist_filterDifficulty # "" \/ Trim(hist_searchTerm) # <<>>
       \/ hist_sortBy # "desc" \/ hist_showBookmarksOnly
    /\ hist_showBookmarksOnly' = FALSE
    /\ IF Filters # [filterDifficulty |-> "", searchTerm |-> <<>>, sortBy |-> "desc"]
       THEN /\ ChangeFilters([filterDifficulty |-> "", searchTerm |-> <<>>,
                              sortBy |-> "desc"])
            /\ lastOp' = Op("clearFilters", NULL, TRUE)
       ELSE /\ UNCHANGED histFetchVars
            /\ lastOp' = Op("clearFilters", NULL, FALSE)
    /\ UNCHANGED <<hist_selectedChallenge, hist_isExporting, hist_exportFormat,
                   hist_bookmarks, hist_toggleCount, hist_toggleInflight,
                   hist_bookmarksFetch, hist_downloads, hist_alert>>

\* The search timer fires DebounceMs after it was set.
SearchTimerFires ==
    /\ hist_timer.armed
    /\ CanIssue(1)
    /\ hist_isLoading' = TRUE
    /\ hist_error' = NoMsg
    /\ hist_inflight' = hist_inflight \cup
           {HistoryRequest(hist_requestCount + 1, 0, hist_timer.filters)}
    /\ hist_requestCount' = hist_requestCount + 1
    /\ hist_lastRequest' = HistoryRequest(hist_requestCount + 1, 0, hist_timer.filters)
    /\ hist_timer' = NoTimer
    /\ lastOp' = Op("searchTimer", 0, TRUE)
    /\ UNCHANGED <<hist_history, hist_page, hist_total, hist_filterDifficulty,
                   hist_searchTerm, hist_sortBy, hist_applied>>
    /\ UNCHANGED histSideVars

\* The my-history request r resolves with response resp.
HistoryResolved(r, resp) ==
    /\ r \in hist_inflight
    /\ hist_inflight' = hist_inflight \ {r}
    /\ hist_history' = resp.challenges
    /\ hist_total' = resp.total
    /\ hist_page' = r.pageNum
    /\ hist_applied' = r
    /\ hist_isLoading' = FALSE
    /\ lastOp' = Op("historyResolved", r.seq, FALSE)
    /\ UNCHANGED <<hist_error, hist_filterDifficulty, hist_searchTerm,
                   hist_sortBy, hist_requestCount, hist_lastRequest, hist_timer>>
    /\ UNCHANGED histSideVars

\* The my-history request r rejects with an error whose message is msg.
HistoryRejected(r, msg) ==
    /\ r \in hist_inflight
    /\ hist_inflight' = hist_inflight \ {r}
    /\ hist_error' = IF msg # NoMsg THEN msg ELSE HistoryFallbackMsg
    /\ hist_isLoading' = FALSE
    /\ lastOp' = Op("historyRejected", r.seq, FALSE)
    /\ UNCHANGED <<hist_history, hist_page, hist_total, hist_filterDifficulty,
                   hist_searchTerm, hist_sortBy, hist_requestCount,
                   hist_lastRequest, hist_timer, hist_applied>>
    /\ UNCHANGED histSideVars

\* ---- Side flows of HistoryPanel: expansion, bookmarks, export ----------

\* The Show Bookmarks toggle.
ToggleShowBookmarksOnly ==
    /\ HistMainView
    /\ hist_showBookmarksOnly' = ~hist_showBookmarksOnly
    /\ lastOp' = Op("showBookmarksOnly", NULL, FALSE)
    /\ UNCHANGED <<hist_selectedChallenge, hist_isExporting, hist_exportFormat,
                   hist_bookmarks, hist_toggleCount, hist_toggleInflight,
                   hist_bookmarksFetch, hist_downloads, hist_alert>>
    /\ UNCHANGED histFetchVars

\* The ids of the rendered cards.
DisplayedIds == {displayedHistory[i] : i \in 1 .. Len(displayedHistory)}

\* handleChallengeClick(challenge): expand or collapse a card.
handleChallengeClick(id) ==
    /\ HistListShown /\ id \in DisplayedIds
    /\ hist_selectedChallenge' = IF hist_selectedChallenge = id THEN NULL ELSE id
    /\ lastOp' = Op("challengeClick", id, FALSE)
    /\ UNCHANGED <<hist_isExporting, hist_exportFormat, hist_bookmarks,
                   hist_showBookmarksOnly, hist_toggleCount, hist_toggleInflight,
                   hist_bookmarksFetch, hist_downloads, hist_alert>>
    /\ UNCHANGED histFetchVars

\* The expanded card: an MCQChallenge with showExplanation = true and no
\* onAnswerSubmit, rendered inside the card of the selected challenge.
ReviewShown == HistListShown /\ hist_selectedChallenge \in DisplayedIds

\* The question view of the expanded card follows what is rendered next: it
\* keeps its state while the same card stays expanded and starts afresh
\* otherwise.
ReviewRemount ==
    IF ReviewShown'
    THEN IF ReviewShown /\ hist_selectedChallenge' = hist_selectedChallenge
         THEN UNCHANGED mcqVars
         ELSE MountMCQ([id |-> hist_selectedChallenge', correct_answer_id |-> 0,
                        nOptions |-> 2], FALSE, TRUE)
    ELSE UnmountMCQ

\* A click on an option of the expanded card.  The option's onClick runs
\* handleOptionSelect; the click then bubbles to the card, whose onClick is
\* handleChallengeClick, which collapses the card and unmounts the view.
ReviewSelectOption(index) ==
    /\ ReviewShown
    /\ index \in 0 .. mcq_challenge.nOptions - 1
    /\ hist_selectedChallenge' = NULL
    /\ UnmountMCQ
    /\ lastOp' = Op("select", index, FALSE)
    /\ UNCHANGED <<hist_isExporting, hist_exportFormat, hist_bookmarks,
                   hist_showBookmarksOnly, hist_toggleCount, hist_toggleInflight,
                   hist_bookmarksFetch, hist_downloads, hist_alert>>
    /\ UNCHANGED histFetchVars

\* fetchBookmarks(), called by the mount effect, settles.
BookmarksFetched(ok, ids) ==
    /\ hist_bookmarksFetch
    /\ hist_bookmarksFetch' = FALSE
    /\ hist_bookmarks' = IF ok THEN ids ELSE hist_bookmarks
    /\ lastOp' = Op(IF ok THEN "bookmarksFetched" ELSE "bookmarksFetchFailed",
                    NULL, FALSE)
    /\ UNCHANGED <<hist_selectedChallenge, hist_isExporting, hist_exportFormat,
                   hist_showBookmarksOnly, hist_toggleCount, hist_toggleInflight,
                   hist_downloads, hist_alert>>
    /\ UNCHANGED histFetchVars

\* The bookmark set right after toggleBookmark is called.
BookmarksOnToggleMutant(challengeId) ==
    IF challengeId \in hist_bookmarks
    THEN hist_bookmarks \ {challengeId} ELSE hist_bookmarks \cup {challengeId}
BookmarksOnToggle(challengeId) == hist_bookmarks

\* toggleBookmark(challengeId, e) up to its await; the star button of a card
\* is never disabled.
toggleBookmark(challengeId) ==
    /\ HistListShown /\ challengeId \in DisplayedIds
    /\ hist_toggleCount < MaxToggles
    /\ hist_toggleCount' = hist_toggleCount + 1
    /\ hist_toggleInflight' =
           [hist_toggleInflight EXCEPT ![challengeId] = @ + 1]
    /\ hist_bookmarks' = BookmarksOnToggle(challengeId)
    /\ lastOp' = Op("toggleBookmark", challengeId, TRUE)
    /\ UNCHANGED <<hist_selectedChallenge, hist_isExporting, hist_exportFormat,
                   hist_showBookmarksOnly, hist_bookmarksFetch, hist_downloads,
                   hist_alert>>
    /\ UNCHANGED histFetchVars

\* A bookmark request for challengeId resolves with {bookmarked}; the update
\* is applied to the set of the time of the response.
BookmarkResolved(challengeId, bookmarked) ==
    /\ hist_toggleInflight[challengeId] > 0
    /\ hist_toggleInflight' =
           [hist_toggleInflight EXCEPT ![challengeId] = @ - 1]
    /\ hist_bookmarks' = IF bookmarked THEN hist_bookmarks \cup {challengeId}
                         ELSE hist_bookmarks \ {challengeId}
    /\ lastOp' = Op(IF bookmarked THEN "bookmarked" ELSE "unbookmarked",
                    challengeId, FALSE)
    /\ UNCHANGED <<hist_selectedChallenge, hist_isExporting, hist_exportFormat,
                   hist_showBookmarksOnly, hist_toggleCount, hist_bookmarksFetch,
                   hist_downloads, hist_alert>>
    /\ UNCHANGED histFetchVars

\* A bookmark request for challengeId rejects: the error is only logged.
BookmarkRejected(challengeId) ==
    /\ hist_toggleInflight[challengeId] > 0
    /\ hist_toggleInflight' =
           [hist_toggleInflight EXCEPT ![challengeId] = @ - 1]
    /\ lastOp' = Op("bookmarkRejected", challengeId, FALSE)
    /\ UNCHANGED <<hist_selectedChallenge, hist_isExporting, hist_exportFormat,
                   hist_bookmarks, hist_showBookmarksOnly, hist_toggleCount,
                   hist_bookmarksFetch, hist_downloads, hist_alert>>
    /\ UNCHANGED histFetchVars

\* The format select of the export controls.
setExportFormat(format) ==
    /\ ExportButtonShown /\ ~hist_isExporting
    /\ format # hist_exportFormat
    /\ hist_exportFormat' = format
    /\ lastOp' = Op("setExportFormat", NULL, FALSE)
    /\ UNCHANGED <<hist_selectedChallenge, hist_isExporting, hist_bookmarks,
                   hist_showBookmarksOnly, hist_toggleCount, hist_toggleInflight,
                   hist_bookmarksFetch, hist_downloads, hist_alert>>
    /\ UNCHANGED histFetchVars

\* The guard of handleExport.
ExportBlockedMutant == FALSE
ExportBlocked == Len(hist_history) = 0

\* handleExport().  The handler is called by the Export button, which is
\* rendered while the list is non-empty, or directly while the list is empty,
\* which is the case its own guard returns on.  exportToJSON and exportToCSV
\* download a file; exportToPDF opens a print window, or alerts when the
\* pop-up is blocked, and sets and clears isExporting in the same call.
handleExport(popupAllowed) ==
    /\ (ExportButtonShown /\ ~hist_isExporting) \/ Len(hist_history) = 0
    /\ hist_downloads < MaxDownloads
    /\ IF ExportBlocked
       THEN /\ hist_alert' = "No challenges to export"
            /\ UNCHANGED hist_downloads
       ELSE IF hist_exportFormat = "pdf" /\ ~popupAllowed
       THEN /\ hist_alert' = "Please allow pop-ups to print"
            /\ UNCHANGED hist_downloads
       ELSE /\ hist_downloads' = hist_downloads + 1
            /\ UNCHANGED hist_alert
    /\ lastOp' = Op("export", NULL, FALSE)
    /\ UNCHANGED <<hist_selectedChallenge, hist_isExporting, hist_exportFormat,
                   hist_bookmarks, hist_showBookmarksOnly, hist_toggleCount,
                   hist_toggleInflight, hist_bookmarksFetch>>
    /\ UNCHANGED histFetchVars

\* ---------------------------------------------------------------------------
\* Claims about HistoryPanel (C4 under SpecHist, C5 under SpecBookmarks,
\* C6 under SpecExport)
\* ---------------------------------------------------------------------------

\* C4: every history request for page k carries limit 10 and offset = k * 10,
\* a page button for page k requests page k, and a change of the difficulty,
\* the search text or the sort order issues, in the same render, requests
\* for page 0 (offset 0) with the new filters.
C4_Pagination ==
    /\ [](/\ \A r \in hist_inflight \cup {hist_lastRequest} :
                r.seq > 0 => r.limit = limit /\ r.offset = r.pageNum * limit
          /\ (lastOp.op = "pageChange" =>
                hist_lastRequest.offset = lastOp.arg * limit))
    /\ [][Filters' # Filters =>
            /\ hist_requestCount' > hist_requestCount
            /\ \A r \in hist_inflight' \ hist_inflight :
                  /\ r.pageNum = 0 /\ r.offset = 0
                  /\ r.sort = hist_sortBy' /\ r.difficulty = hist_filterDifficulty'
                  /\ r.search = Trim(hist_searchTerm')
            /\ hist_lastRequest'.offset = 0]_vars

\* C4 witness: the panel shows page 2 (offset 20 was requested and answered)
\* and a filter change has just requested page 0.
C4_Witness ==
    /\ hist_page = 2
    /\ lastOp.op \in {"difficultyChange", "sortChange", "searchChange"}
    /\ hist_lastRequest.offset = 0
    /\ hist_lastRequest.seq = hist_requestCount

\* C5: a bookmark toggle of id c changes the bookmark set only when its
\* response arrives: the response {bookmarked: b} makes c a member iff b and
\* leaves every other id alone; the call itself and a failure change nothing.
C5_BookmarkFrame ==
    [][/\ lastOp'.op \in {"toggleBookmark", "bookmarkRejected"} =>
            hist_bookmarks' = hist_bookmarks
       /\ lastOp'.op \in {"bookmarked", "unbookmarked"} =>
            /\ (lastOp'.arg \in hist_bookmarks') = (lastOp'.op = "bookmarked")
            /\ hist_bookmarks' \ {lastOp'.arg} = hist_bookmarks \ {lastOp'.arg}
       /\ hist_bookmarks' # hist_bookmarks =>
            lastOp'.op \in {"bookmarked", "unbookmarked", "bookmarksFetched"}]_vars

\* C5 witness: the server answered bookmarked = true for id 42 while a
\* toggle was still in flight, and 42 is the only bookmark.
C5_Witness ==
    /\ lastOp = Op("bookmarked", 42, FALSE)
    /\ hist_bookmarks = {42}
    /\ \E id \in HistIds : hist_toggleInflight[id] > 0
    /\ ~hist_bookmarksFetch

\* C6: handleExport with an empty loaded list shows the notice and downloads
\* nothing, issues no request and changes no view state.
C6_EmptyExport ==
    [][lastOp'.op = "export" /\ Len(hist_history) = 0 =>
          /\ hist_alert' = "No challenges to export"
          /\ hist_downloads' = hist_downloads
          /\ hist_requestCount' = hist_requestCount
          /\ hist_toggleCount' = hist_toggleCount
          /\ hist_inflight' = hist_inflight
          /\ UNCHANGED histState]_vars

\* C6 witness: the server returned an empty list, export was invoked in some
\* format other than the default, and the notice is up with nothing downloaded.
C6_Witness ==
    /\ lastOp.op = "export"
    /\ Len(hist_history) = 0 /\ ~hist_isLoading /\ hist_error = NoMsg
    /\ hist_alert = "No challenges to export"
    /\ hist_downloads = 0

\* C17: a change of the search text issues no history request by itself; it
\* only (re)arms the debounce timer, and the request for the new text is the
\* one the timer issues when it fires.
C17_SearchDebounced ==
    [][lastOp'.op = "searchChange" =>
        /\ hist_requestCount' = hist_requestCount
        /\ hist_inflight' = hist_inflight
        /\ hist_timer'.armed]_vars

\* C25 as stated: the list shown is in every state exactly the list of the
\* history response last applied, which only a response changes; every
\* request carries the filters as query parameters.
C25_ServerSlice ==
    /\ [](HistListShown => displayedHistory = hist_history)
    /\ [][hist_history' # hist_history =>
            lastOp'.op = "historyResolved"]_vars
    /\ [](\A r \in hist_inflight :
            /\ r.sort \in HistSorts /\ r.difficulty \in HistDifficulties
            /\ r.search \in {Trim(t) : t \in SearchTerms})

\* C25 amended: the loaded list is the list of the history response last
\* applied, and difficulty, search text and sort order reach the server as
\* query parameters.  The bookmarks-only filter does not: toggling it sends
\* no request, and while it is on the list shown is the loaded list
\* restricted, on the client, to the ids in the bookmark set.
C25_ClientBookmarkFilter ==
    /\ [](/\ ~hist_showBookmarksOnly => displayedHistory = hist_history
          /\ hist_showBookmarksOnly =>
                /\ DisplayedIds =
                      {hist_history[i] : i \in 1 .. Len(hist_history)}
                          \cap hist_bookmarks
                /\ Len(displayedHistory) = Cardinality(DisplayedIds))
    /\ [][hist_history' # hist_history =>
            lastOp'.op = "historyResolved"]_vars
    /\ [][lastOp'.op = "showBookmarksOnly" =>
            /\ hist_inflight' = hist_inflight
            /\ hist_requestCount' = hist_requestCount
            /\ hist_history' = hist_history]_vars
    /\ [](\A r \in hist_inflight :
            /\ r.sort \in HistSorts /\ r.difficulty \in HistDifficulties
            /\ r.search \in {Trim(t) : t \in SearchTerms})

\* C25 witness: two challenges are loaded, one of them bookmarked, and with
\* bookmarks-only on the panel shows that one alone.
C25_Witness ==
    /\ hist_showBookmarksOnly /\ HistListShown
    /\ hist_history = <<42, 7>>
    /\ hist_bookmarks = {42}
    /\ displayedHistory = <<42>>

\* C27: once every history request has settled without an error, the list,
\* total and page shown are those of a request made with the current
\* filters, sort order and search text, for the page requested last; a
\* response to an earlier-issued request never replaces the result of a
\* later-issued one; and list, total and page change only together, by one
\* response.
C27_LatestRequestWins ==
    /\ [](hist_inflight = {} /\ hist_error = NoMsg /\ hist_applied.seq > 0 =>
            /\ hist_page = hist_lastRequest.pageNum
            /\ hist_applied.sort = hist_sortBy
            /\ hist_applied.difficulty = hist_filterDifficulty
            /\ hist_applied.search = Trim(hist_searchTerm))
    /\ [][lastOp'.op = "historyResolved" =>
            hist_applied'.seq >= hist_applied.seq]_vars
    /\ [][<<hist_history, hist_total, hist_page>>' #
              <<hist_history, hist_total, hist_page>> =>
            /\ lastOp'.op = "historyResolved"
            /\ hist_page' = hist_applied'.pageNum]_vars

\* C20: a control that has a request in flight issues no second one before
\* the first settles: no generation starts while one is loading, no answer
\* is submitted while a submission is pending, no hint is requested while
\* one is loading, no bookmark toggle of a row is sent while a toggle of that
\* row is pending, and no page navigation directly follows another.
C20_ControlDisabledInFlight ==
    /\ [][lastOp'.op = "generate" /\ lastOp'.net => ~gen_isLoading]_vars
    /\ [][lastOp'.op = "select" /\ lastOp'.net =>
            mcq_submitInflight = 0 /\ gen_validateInflight = {}]_vars
    /\ [][lastOp'.op = "requestHint" /\ lastOp'.net => mcq_hintInflight = {}]_vars
    /\ [][lastOp'.op = "toggleBookmark" =>
            hist_toggleInflight[lastOp'.arg] = 0]_vars
    /\ [][lastOp'.op = "pageChange" => lastOp.op # "pageChange"]_vars

\* C15: while a history card is expanded its question view shows the
\* explanation, before any click as well as after, and no step taken in that
\* view calls the answer-submission callback.
C15_ReviewMode ==
    /\ [](ReviewShown => ExplanationShown)
    /\ [][ReviewShown =>
            mcq_submitLog' = <<>> /\ mcq_submitInflight' = 0]_vars

\* ---------------------------------------------------------------------------
\* Layout: the quota banner
\* ---------------------------------------------------------------------------
MaxRemaining == 17         \* quota_remaining values 0 .. MaxRemaining
MaxLayInflight == 2        \* cap on the quota requests outstanding at once
MaxLayFetches == 3         \* cap on the quota requests issued by the shell

DangerBelow == 5           \* quota.quota_remaining <= 5
WarningBelow == 15         \* quota.quota_remaining <= 15

InitLay ==
    /\ lay_quota = NULL
    /\ lay_quotaInflight = {1}        \* the effect has called loadQuota
    /\ lay_issued = 1
    /\ lay_shownBy = 0
    /\ lay_newest = 0

\* The interval callback, every 60 s while mounted: fetchQuota().
LayPoll ==
    /\ Cardinality(lay_quotaInflight) < MaxLayInflight
    /\ lay_issued < MaxLayFetches
    /\ lay_issued' = lay_issued + 1
    /\ lay_quotaInflight' = lay_quotaInflight \cup {lay_issued + 1}
    /\ lastOp' = Op("layPoll", NULL, TRUE)
    /\ UNCHANGED <<lay_quota, lay_shownBy, lay_newest>>

\* The quota request r of the shell settles: setQuota(quotaData), whichever
\* request the response belongs to; a failure is only logged.
LayQuotaSettlesMutant(r, ok, remaining) ==
    /\ r \in lay_quotaInflight
    /\ lay_quotaInflight' = lay_quotaInflight \ {r}
    /\ lay_quota' = IF ok /\ r > lay_shownBy THEN remaining ELSE lay_quota
    /\ lay_shownBy' = IF ok /\ r > lay_shownBy THEN r ELSE lay_shownBy
    /\ lay_newest' = IF ok /\ r > lay_newest THEN r ELSE lay_newest
    /\ lastOp' = Op(IF ok THEN "layQuotaResolved" ELSE "layQuotaRejected",
                    IF ok THEN remaining ELSE NULL, FALSE)
    /\ UNCHANGED lay_issued
LayQuotaSettles(r, ok, remaining) ==
    /\ r \in lay_quotaInflight
    /\ lay_quotaInflight' = lay_quotaInflight \ {r}
    /\ lay_quota' = IF ok THEN remaining ELSE lay_quota
    /\ lay_shownBy' = IF ok THEN r ELSE lay_shownBy
    /\ lay_newest' = IF ok /\ r > lay_newest THEN r ELSE lay_newest
    /\ lastOp' = Op(IF ok THEN "layQuotaResolved" ELSE "layQuotaRejected",
                    IF ok THEN remaining ELSE NULL, FALSE)
    /\ UNCHANGED lay_issued

\* The style getCreditStyle merges into the banner for a quota whose
\* quota_remaining is remaining ("none" is the empty object).
CreditStyleMutant(remaining) ==
    IF remaining < DangerBelow THEN "creditDanger"
    ELSE IF remaining <= WarningBelow THEN "creditWarning"
    ELSE "none"
CreditStyle(remaining) ==
    IF remaining <= DangerBelow THEN "creditDanger"
    ELSE IF remaining <= WarningBelow THEN "creditWarning"
    ELSE "none"

\* The icon getCreditIcon returns for such a quota.
CreditIcon(remaining) ==
    IF remaining <= 0 THEN "no-entry"
    ELSE IF remaining <= DangerBelow THEN "warning-sign"
    ELSE IF remaining <= WarningBelow THEN "bolt"
    ELSE "sparkles"

getCreditStyle == IF lay_quota = NULL THEN "none" ELSE CreditStyle(lay_quota)
getCreditIcon == IF lay_quota = NULL THEN "bolt" ELSE CreditIcon(lay_quota)

\* The banner is rendered.
BannerShown == lay_quota # NULL

\* What the banner looks like for a given remaining count.
Appearance(remaining) == <<CreditStyle(remaining), CreditIcon(remaining)>>

\* ---------------------------------------------------------------------------
\* Claims about the quota banner (checked under SpecBanner)
\* ---------------------------------------------------------------------------

\* C7 as stated: the banner has three looks, one for remaining = 0, one for
\* 0 < remaining <= threshold and the neutral one above the threshold, and
\* the looks on the two sides of each boundary differ.
C7_ThreeWayFromZero ==
    BannerShown =>
        \E threshold \in 1 .. MaxRemaining - 1 :
            /\ \A r \in 1 .. threshold : Appearance(r) = Appearance(threshold)
            /\ \A r \in threshold + 1 .. MaxRemaining :
                  Appearance(r) = Appearance(MaxRemaining)
            /\ CreditStyle(MaxRemaining) = "none"
            /\ Appearance(0) # Appearance(1)
            /\ Appearance(threshold) # Appearance(threshold + 1)
            /\ <<getCreditStyle, getCreditIcon>> = Appearance(lay_quota)

\* C7 amended: the banner style is a function of quota_remaining with three
\* outcomes: danger up to 5 (0 included), warning from 6 to 15, neutral
\* above 15; remaining 0 and 1 share the danger style and differ only in the
\* icon.
C7_BannerStyle ==
    BannerShown =>
        /\ getCreditStyle = (IF lay_quota \in 0 .. 5 THEN "creditDanger"
                             ELSE IF lay_quota \in 6 .. 15 THEN "creditWarning"
                             ELSE "none")
        /\ (lay_quota = 0 =>
              getCreditStyle = CreditStyle(1) /\ getCreditIcon # CreditIcon(1))
        /\ (lay_quota \in {5, 15} =>
              getCreditStyle # CreditStyle(lay_quota + 1))

\* C7 witness: the last quota response said 5, the top of the danger range.
C7_Witness ==
    /\ lay_quota = 5
    /\ lastOp = Op("layQuotaResolved", 5, FALSE)

\* C21: the displayed quota is last-write-wins with no staleness guard: a
\* quota response that arrives sets the displayed quota to its value, also
\* when it belongs to a request issued before the one whose response is
\* already displayed, and a failed one leaves the display alone.
C21_LastWriteWins ==
    /\ [][lastOp'.op = "layQuotaResolved" =>
            /\ lay_quota' = lastOp'.arg
            /\ lay_shownBy' \in lay_quotaInflight \ lay_quotaInflight']_vars
    /\ [][lastOp'.op = "layQuotaRejected" =>
            lay_quota' = lay_quota /\ lay_shownBy' = lay_shownBy]_vars
    /\ [](lay_shownBy <= lay_newest /\ lay_newest <= lay_issued)

\* C21 witness: every request has settled and the displayed quota is the
\* response of a request older than one whose response was received before.
C21_Witness ==
    /\ lay_quotaInflight = {}
    /\ lay_shownBy # 0
    /\ lay_shownBy < lay_newest
    /\ lastOp.op = "layQuotaResolved"
    /\ lay_quota = lastOp.arg

\* ---------------------------------------------------------------------------
\* useApi: makeRequest and the verbs built on it
\* ---------------------------------------------------------------------------
Calls == {1, 2}            \* two makeRequest calls, free to overlap
Methods == {"GET", "POST", "PUT", "DELETE"}
Tokens == {"tokenA", "tokenB"}
Statuses == {200, 299, 300, 401, 429, 503}
Details == {NoMsg, <<"Topic too long">>}
TokenFailureMsg == <<"Token retrieval failed">>
NetworkFailureMsg == <<"Failed to fetch">>
JsonFailureMsg == <<"Unexpected end of JSON input">>

NoOutcome == [kind |-> "none", source |-> "none", msg |-> NoMsg]
Failure(source, msg) == [kind |-> "error", source |-> source, msg |-> msg]
Success == [kind |-> "ok", source |-> "none", msg |-> NoMsg]

\* A call not yet made; detail is what the response body yields as
\* errorData?.detail (NoMsg when it has none or does not parse).
IdleCall == [pc |-> "idle", method |-> "", status |-> NULL, detail |-> NoMsg,
             outcome |-> NoOutcome]

InitApi ==
    /\ api_call = [c \in Calls |-> IdleCall]
    /\ api_retrievalLog = <<>>
    /\ api_fetchLog = <<>>

\* get / post / put / delete(endpoint, ...): makeRequest up to await getToken().
makeRequest(c, method) ==
    /\ api_call[c].pc = "idle"
    /\ api_call' = [api_call EXCEPT ![c].pc = "getToken", ![c].method = method]
    /\ lastOp' = Op("makeRequest", c, FALSE)
    /\ UNCHANGED <<api_retrievalLog, api_fetchLog>>

\* The token the Authorization header of call c carries, as an index into
\* the retrievals, given that retrieval mine is the one call c just awaited.
HeaderRetrievalMutant(c, mine) == 1
HeaderRetrieval(c, mine) == mine

\* getToken() of call c resolves with token; the call builds its headers
\* and calls fetch.
TokenResolved(c, token) ==
    /\ api_call[c].pc = "getToken"
    /\ api_retrievalLog' = Append(api_retrievalLog, [call |-> c, token |-> token])
    /\ LET used == HeaderRetrieval(c, Len(api_retrievalLog) + 1) IN
        api_fetchLog' = Append(api_fetchLog,
            [call |-> c, method |-> api_call[c].method,
             authorization |-> <<"Bearer ", api_retrievalLog'[used].token>>,
             retrieval |-> used])
    /\ api_call' = [api_call EXCEPT ![c].pc = "fetch"]
    /\ lastOp' = Op("fetch", c, TRUE)

\* getToken() of call c rejects: the catch block rethrows the error.
TokenRejected(c) ==
    /\ api_call[c].pc = "getToken"
    /\ api_call' = [api_call EXCEPT ![c].pc = "done",
                       ![c].outcome = Failure("token", TokenFailureMsg)]
    /\ lastOp' = Op("tokenRejected", c, FALSE)
    /\ UNCHANGED <<api_retrievalLog, api_fetchLog>>

\* fetch() of call c rejects (offline, DNS, ...).
FetchRejected(c) ==
    /\ api_call[c].pc = "fetch"
    /\ api_call' = [api_call EXCEPT ![c].pc = "done",
                       ![c].outcome = Failure("network", NetworkFailureMsg)]
    /\ lastOp' = Op("fetchRejected", c, FALSE)
    /\ UNCHANGED <<api_retrievalLog, api_fetchLog>>

\* response.ok
ResponseOk(status) == status \in 200 .. 299

\* The error thrown for a response that is not ok; errorData is the detail
\* of the parsed body, NoMsg when the body has none or does not parse.
StatusErrorMutant(status, errorData) ==
    IF errorData # NoMsg THEN errorData
    ELSE IF status = 429 THEN QuotaExceededMsg
    ELSE IF status = 401 THEN AuthFailedMsg
    ELSE StatusMsg(status)
StatusError(status, errorData) ==
    IF status = 429 THEN QuotaExceededMsg
    ELSE IF status = 401 THEN AuthFailedMsg
    ELSE IF errorData # NoMsg THEN errorData
    ELSE StatusMsg(status)

\* The failures a generation request can end in: the error makeRequest
\* throws for a response that is not ok, and an error thrown without a
\* response, whose message may be empty.
GenFailures ==
    {[status |-> r.status, msg |-> StatusError(r.status, r.detail)] :
        r \in {[status |-> 429, detail |-> NoMsg],
               [status |-> 401, detail |-> NoMsg],
               [status |-> 503, detail |-> NoMsg],
               [status |-> 500, detail |-> <<"Authentication", " service is down">>]}}
    \cup {[status |-> NULL, msg |-> m] : m \in {NetworkFailureMsg, NoMsg}}

\* C29: the outcome of a failed generation agrees with the HTTP status: the
\* daily-limit message and the quota refresh exactly for 429, the sign-in
\* message exactly for 401, and otherwise the error's own text or the
\* fallback, whatever the server's detail says.
C29_OutcomeFollowsStatus ==
    lastOp.op = "generateRejected" =>
        /\ (gen_error = DailyLimitMsg) <=> (lastOp.arg = 429)
        /\ lastOp.net <=> (lastOp.arg = 429)
        /\ (gen_error = SignInMsg) <=> (lastOp.arg = 401)
        /\ (lastOp.arg \notin {429, 401} =>
              gen_error \in {f.msg : f \in GenFailures} \cup {GenerateFallbackMsg})

\* fetch() of call c resolves with a response of the given status whose body
\* carries detail and parses as JSON or not.
FetchResponded(c, status, detail, parses) ==
    /\ api_call[c].pc = "fetch"
    /\ api_call' = [api_call EXCEPT
           ![c].pc = "done",
           ![c].status = status,
           ![c].detail = IF parses THEN detail ELSE NoMsg,
           ![c].outcome =
               IF ~ResponseOk(status)
               THEN Failure("status",
                        StatusError(status, IF parses THEN detail ELSE NoMsg))
               ELSE IF parses THEN Success
               ELSE Failure("json", JsonFailureMsg)]
    /\ lastOp' = Op("response", c, parses)
    /\ UNCHANGED <<api_retrievalLog, api_fetchLog>>

\* ---------------------------------------------------------------------------
\* Claims about useApi (checked under SpecApi)
\* ---------------------------------------------------------------------------

\* C9: a response that is not 2xx gives exactly one failure: 429 the
\* quota-exceeded error and 401 the authentication error, whatever the body
\* says, and any other status the server's detail if there is one and the
\* numeric status otherwise; a 2xx response gives no failure of this kind.
C9_StatusMapping ==
    \A c \in Calls :
        LET call == api_call[c] IN
        (call.pc = "done" /\ call.status # NULL) =>
            IF call.status \in 200 .. 299
            THEN call.outcome.source # "status"
            ELSE /\ call.outcome.kind = "error" /\ call.outcome.source = "status"
                 /\ (call.status = 429 => call.outcome.msg = QuotaExceededMsg)
                 /\ (call.status = 401 => call.outcome.msg = AuthFailedMsg)
                 /\ (call.status \notin {429, 401} =>
                       call.outcome.msg = (IF call.detail # NoMsg THEN call.detail
                                           ELSE StatusMsg(call.status)))

\* C9 witness: a 429 whose body carries a detail, next to a 503 without one.
C9_Witness ==
    \E c, d \in Calls :
        /\ api_call[c].pc = "done" /\ api_call[c].status = 429
        /\ api_call[c].detail # NoMsg
        /\ api_call[d].pc = "done" /\ api_call[d].status = 503
        /\ api_call[d].outcome.msg = StatusMsg(503)

\* C10: every fetch carries an Authorization: Bearer header whose token was
\* retrieved by the same makeRequest call before the fetch, no retrieval
\* serves two fetches, and a call whose token retrieval fails ends with that
\* error without a fetch.
C10_FreshToken ==
    /\ \A i \in 1 .. Len(api_fetchLog) :
          LET f == api_fetchLog[i] IN
          /\ f.retrieval \in 1 .. Len(api_retrievalLog)
          /\ api_retrievalLog[f.retrieval].call = f.call
          /\ f.authorization = <<"Bearer ", api_retrievalLog[f.retrieval].token>>
          /\ \A j \in 1 .. Len(api_fetchLog) :
                j # i => api_fetchLog[j].retrieval # f.retrieval
    /\ \A c \in Calls :
          api_call[c].outcome.source = "token" =>
              /\ api_call[c].outcome = Failure("token", TokenFailureMsg)
              /\ \A i \in 1 .. Len(api_fetchLog) : api_fetchLog[i].call # c

\* C10 witness: two overlapping calls, the later one fetching first, each
\* with its own retrieval of what happens to be the same token.
C10_Witness ==
    /\ Len(api_fetchLog) = 2
    /\ api_fetchLog[1].call = 2 /\ api_fetchLog[2].call = 1
    /\ api_fetchLog[1].authorization = api_fetchLog[2].authorization
    /\ api_fetchLog[1].retrieval = 1 /\ api_fetchLog[2].retrieval = 2

\* ---------------------------------------------------------------------------
\* DailyChallenge
\* ---------------------------------------------------------------------------

\* Bodies of challenges/daily-challenge responses, by what the component
\* reads of them: data itself (present), data.challenge, data.can_attempt and
\* data.daily_challenge.  The documented body {challenge, can_attempt,
\* streak} has no daily_challenge; NoData is a null body and the initial
\* dailyData.
NoData == [present |-> FALSE, challenge |-> FALSE, can_attempt |-> FALSE,
           daily_challenge |-> FALSE]
DailyResponses ==
    [present : {TRUE}, challenge : BOOLEAN, can_attempt : BOOLEAN,
     daily_challenge : BOOLEAN] \cup {NoData}

DailyQuestion == [id |-> 7, correct_answer_id |-> 1, nOptions |-> 2]
DailyChallengeId == 99     \* data.daily_challenge.id, not the question's id

NoDailyResult == [present |-> FALSE, streak_bonus |-> 0, new_streak |-> 0]
DailyResults == {[present |-> TRUE, streak_bonus |-> 0, new_streak |-> 1],
                 [present |-> TRUE, streak_bonus |-> 5, new_streak |-> 3]}

DailyFailureMsgs == {StatusMsg(503), NoMsg}

InitDaily ==
    /\ daily_data = NoData
    /\ daily_isLoading = TRUE
    /\ daily_error = NoMsg
    /\ daily_completed = FALSE
    /\ daily_result = NoDailyResult
    /\ daily_fetchInflight = 1         \* the effect has called fetchDailyChallenge
    /\ daily_completeInflight = {}

\* Which of its returns the component renders.
DailyView ==
    IF daily_isLoading THEN "loading"
    ELSE IF daily_error # NoMsg THEN "error"
    ELSE IF ~daily_data.present THEN "nodata"
    ELSE IF daily_completed THEN "summary"
    ELSE IF daily_data.challenge THEN "question"
    ELSE "nochallenge"

\* The MCQChallenge of the daily view follows what is rendered next.
DailyRemount ==
    IF DailyView' = "question"
    THEN MountMCQ(DailyQuestion, TRUE, FALSE)
    ELSE UnmountMCQ

\* fetchDailyChallenge() up to its await.
fetchDailyChallenge ==
    /\ daily_isLoading' = TRUE
    /\ daily_fetchInflight' = daily_fetchInflight + 1

\* The Try Again and Refresh buttons.
DailyRetry ==
    /\ DailyView \in {"error", "nodata", "nochallenge"}
    /\ fetchDailyChallenge
    /\ lastOp' = Op("dailyFetch", NULL, TRUE)
    /\ UNCHANGED <<daily_data, daily_error, daily_completed, daily_result,
                   daily_completeInflight, mcqVars>>

\* A daily-challenge request settles: with body data, or with an error
\* whose message is msg.
DailyFetchSettles(ok, data, msg) ==
    /\ daily_fetchInflight > 0
    /\ daily_fetchInflight' = daily_fetchInflight - 1
    /\ IF ok
       THEN /\ daily_data' = data
            /\ daily_completed' = ~data.can_attempt
            /\ UNCHANGED daily_error
       ELSE /\ daily_error' = IF msg # NoMsg THEN msg
                              ELSE <<"Failed to fetch daily challenge">>
            /\ UNCHANGED <<daily_data, daily_completed>>
    /\ daily_isLoading' = FALSE
    /\ DailyRemount
    /\ lastOp' = Op(IF ok THEN "dailyFetchResolved" ELSE "dailyFetchRejected",
                    NULL, FALSE)
    /\ UNCHANGED <<daily_result, daily_completeInflight>>

\* A click on an option of the daily question; an accepted click calls
\* DailyChallenge.handleAnswerSubmit, which reads dailyData.daily_challenge.id
\* inside its try block.
DailySelectOption(index) ==
    /\ DailyView = "question"
    /\ IF SelectBlocked \/ daily_data.daily_challenge
       THEN /\ handleOptionSelect(index)
            /\ daily_completeInflight' =
                   IF SelectBlocked THEN daily_completeInflight
                   ELSE daily_completeInflight \cup
                        {[daily_challenge_id |-> DailyChallengeId,
                          is_correct |-> (index = mcq_challenge.correct_answer_id)]}
            /\ UNCHANGED daily_error
       ELSE /\ index \in 0 .. mcq_challenge.nOptions - 1
            /\ daily_error' = <<"Cannot read properties of undefined (reading 'id')">>
            /\ UnmountMCQ
            /\ lastOp' = Op("select", index, FALSE)
            /\ UNCHANGED daily_completeInflight
    /\ UNCHANGED <<daily_data, daily_isLoading, daily_completed, daily_result,
                   daily_fetchInflight>>

\* The complete request r settles: with the streak figures in result, or
\* with an error whose message is msg.
DailyCompleteSettles(r, ok, result, msg) ==
    /\ r \in daily_completeInflight
    /\ daily_completeInflight' = daily_completeInflight \ {r}
    /\ IF ok
       THEN /\ daily_result' = result
            /\ daily_completed' = TRUE
            /\ fetchDailyChallenge
            /\ UNCHANGED daily_error
       ELSE /\ daily_error' = IF msg # NoMsg THEN msg
                              ELSE <<"Failed to submit daily challenge">>
            /\ UNCHANGED <<daily_result, daily_completed, daily_isLoading,
                           daily_fetchInflight>>
    /\ DailyRemount
    /\ lastOp' = Op(IF ok THEN "dailyCompleteResolved" ELSE "dailyCompleteRejected",
                    NULL, ok)
    /\ UNCHANGED daily_data

\* ---------------------------------------------------------------------------
\* Claims about DailyChallenge (checked under SpecDaily)
\* ---------------------------------------------------------------------------

\* C13: whenever no request is in flight, the completion summary is what the
\* view shows iff the last daily-challenge response received had
\* can_attempt = false.
C13_SummaryIffCannotAttempt ==
    (daily_fetchInflight = 0 /\ daily_completeInflight = {}) =>
        ((DailyView = "summary") <=> (daily_data.present /\ ~daily_data.can_attempt))

\* C26: an error state of the daily view is recoverable by retry: when a
\* daily-challenge request issued from the error view resolves and loading
\* ends, the view has left the error state and shows the question or the
\* completion summary, according to the response.
C26_RetryRecovers ==
    [][(/\ daily_error # NoMsg
        /\ lastOp'.op = "dailyFetchResolved"
        /\ ~daily_isLoading') =>
            /\ DailyView' # "error"
            /\ (daily_data'.challenge /\ daily_data'.can_attempt =>
                  DailyView' = "question")
            /\ (~daily_data'.can_attempt => DailyView' = "summary")]_vars

\* C14: an accepted answer to a daily question hydrated from the documented
\* body {challenge, can_attempt, streak} puts one complete request in
\* flight, carrying the daily challenge id and the correctness the view
\* computed; when a complete request resolves, its streak figures are
\* stored and the day's state is fetched again.
C14_CompleteThenRefetch ==
    /\ [][(/\ DailyView = "question"
           /\ ~SelectBlocked
           /\ lastOp'.op = "select"
           /\ ~daily_data.daily_challenge) =>
            daily_completeInflight' =
                {[daily_challenge_id |-> DailyChallengeId,
                  is_correct |-> (lastOp'.arg = DailyQuestion.correct_answer_id)]}]_vars
    /\ [][lastOp'.op = "dailyCompleteResolved" =>
            /\ daily_result'.present
            /\ daily_fetchInflight' = daily_fetchInflight + 1]_vars

\* ---------------------------------------------------------------------------
\* StatsDashboard
\* ---------------------------------------------------------------------------
MaxStatsFetches == 2       \* cap on the fetchStats calls

Levels == {"easy", "medium", "hard"}
Timeframes == {"week", "month", "all"}
StatCounts == {0, 1, 2}            \* byDifficulty[level] of a response
StatRates == {0, 80}               \* successRate[level] of a response, in percent

Total(byDifficulty) ==
    byDifficulty["easy"] + byDifficulty["medium"] + byDifficulty["hard"]

\* Bodies of the stats response: the counts sum to totalChallenges.
StatsResponses ==
    {[totalChallenges |-> Total(c), byDifficulty |-> c, successRate |-> r] :
        c \in [Levels -> StatCounts], r \in [Levels -> StatRates]}

NoStats == [totalChallenges |-> NULL,
            byDifficulty |-> [l \in Levels |-> 0],
            successRate |-> [l \in Levels |-> 0]]

InitStats ==
    /\ stats_stats = NoStats
    /\ stats_isLoading = TRUE
    /\ stats_error = NoMsg
    /\ stats_timeframe = "all"
    /\ stats_fetchCount = 1           \* the effect has called fetchStats
    /\ stats_inflight = {[id |-> 1, timeframe |-> "all", stage |-> "stats"]}

\* Which of its returns the component renders.
StatsView ==
    IF stats_isLoading /\ stats_stats = NoStats THEN "loading"
    ELSE IF stats_error # NoMsg THEN "error"
    ELSE "dashboard"

\* The object the dashboard reads: transformedStats, or the zero defaults.
StatsData ==
    IF stats_stats = NoStats
    THEN [totalChallenges |-> 0, byDifficulty |-> [l \in Levels |-> 0],
          successRate |-> [l \in Levels |-> 0]]
    ELSE stats_stats

\* Math.round(n / d) for n >= 0 and d > 0: halves round up.
Round(n, d) == (2 * n + d) \div (2 * d)

\* 100 times the sum the code forms: count * (rate / 100) over the levels.
WeightedSum(data) ==
    data.byDifficulty["easy"] * data.successRate["easy"]
    + data.byDifficulty["medium"] * data.successRate["medium"]
    + data.byDifficulty["hard"] * data.successRate["hard"]

\* overallSuccess: the rounded quotient of that sum by totalChallenges.
overallSuccess ==
    IF StatsData.totalChallenges > 0
    THEN Round(WeightedSum(StatsData), 100 * StatsData.totalChallenges)
    ELSE 0

\* fetchStats() of the current render, up to its first await.
fetchStats(timeframe) ==
    /\ stats_fetchCount < MaxStatsFetches
    /\ stats_isLoading' = TRUE
    /\ stats_fetchCount' = stats_fetchCount + 1
    /\ stats_inflight' = stats_inflight \cup
           {[id |-> stats_fetchCount + 1, timeframe |-> timeframe, stage |-> "stats"]}
    /\ UNCHANGED <<stats_stats, stats_error>>

\* A timeframe button: the new timeframe gives a new fetchStats, which the
\* effect calls.
setTimeframe(tf) ==
    /\ StatsView = "dashboard"
    /\ tf # stats_timeframe
    /\ stats_timeframe' = tf
    /\ fetchStats(tf)
    /\ lastOp' = Op("setTimeframe", NULL, TRUE)

\* The Retry button of the error view.
StatsRetry ==
    /\ StatsView = "error"
    /\ fetchStats(stats_timeframe)
    /\ lastOp' = Op("statsRetry", NULL, TRUE)
    /\ UNCHANGED stats_timeframe

\* The stats request of call c resolves: the streak request is issued.
StatsDataArrives(c) ==
    /\ c \in stats_inflight /\ c.stage = "stats"
    /\ stats_inflight' = (stats_inflight \ {c}) \cup {[c EXCEPT !.stage = "streak"]}
    /\ lastOp' = Op("statsData", c.id, TRUE)
    /\ UNCHANGED <<stats_stats, stats_isLoading, stats_error, stats_timeframe,
                   stats_fetchCount>>

\* The streak request of call c resolves: setStats(data), setError(null),
\* and the finally block; data is the body the stats request had returned.
StatsResolved(c, data) ==
    /\ c \in stats_inflight /\ c.stage = "streak"
    /\ stats_inflight' = stats_inflight \ {c}
    /\ stats_stats' = data
    /\ stats_error' = NoMsg
    /\ stats_isLoading' = FALSE
    /\ lastOp' = Op("statsResolved", c.id, FALSE)
    /\ UNCHANGED <<stats_timeframe, stats_fetchCount>>

\* Either request of call c rejects: setError(err.message).
StatsRejected(c, msg) ==
    /\ c \in stats_inflight
    /\ stats_inflight' = stats_inflight \ {c}
    /\ stats_error' = msg
    /\ stats_isLoading' = FALSE
    /\ lastOp' = Op("statsRejected", c.id, FALSE)
    /\ UNCHANGED <<stats_stats, stats_timeframe, stats_fetchCount>>

\* ---------------------------------------------------------------------------
\* Claims about StatsDashboard (checked under SpecStats)
\* ---------------------------------------------------------------------------

\* C28: on the dashboard, when totalChallenges > 0 and the per-difficulty
\* counts sum to it, the overall success percentage shown is the
\* count-weighted average of the per-difficulty rates rounded to an integer,
\* and so lies between the smallest and the largest rate.
C28_WeightedAverage ==
    (/\ StatsView = "dashboard"
     /\ StatsData.totalChallenges > 0
     /\ Total(StatsData.byDifficulty) = StatsData.totalChallenges) =>
        /\ overallSuccess = Round(WeightedSum(StatsData), StatsData.totalChallenges)
        /\ \E l \in Levels : StatsData.successRate[l] <= overallSuccess
        /\ \E l \in Levels : overallSuccess <= StatsData.successRate[l]

\* ---------------------------------------------------------------------------
\* Specifications
\* ---------------------------------------------------------------------------
\* The page just mounted, without and with a question on display.
InitPage ==
    /\ NoMCQ /\ InitGen /\ InitHist /\ InitLay /\ InitApi /\ InitDaily /\ InitStats
    /\ lastOp = Op("mount", NULL, FALSE)

InitQuestion ==
    /\ InitMCQ /\ InitGen /\ InitHist /\ InitLay /\ InitApi /\ InitDaily /\ InitStats
    /\ lastOp = Op("mount", NULL, FALSE)

\* What the steps of one component leave alone.
OutsideMCQ == UNCHANGED <<genVars, histVars, layVars, apiVars, dailyVars, statsVars>>
OutsideGen == UNCHANGED <<histVars, layVars, apiVars, dailyVars, statsVars>>
OutsideHist == UNCHANGED <<mcqVars, genVars, layVars, apiVars, dailyVars, statsVars>>
OutsideLayout == UNCHANGED <<mcqVars, genVars, histVars, apiVars, dailyVars, statsVars>>
OutsideApi == UNCHANGED <<mcqVars, genVars, histVars, layVars, dailyVars, statsVars>>
OutsideDaily == UNCHANGED <<genVars, histVars, layVars, apiVars, statsVars>>
OutsideReview == UNCHANGED <<genVars, layVars, apiVars, dailyVars, statsVars>>
OutsideStats == UNCHANGED <<mcqVars, genVars, histVars, layVars, apiVars, dailyVars>>

NextMCQ ==
    \/ \E index \in 0 .. MaxOptions - 1 :
          handleOptionSelect(index) /\ OutsideMCQ
    \/ \E ok \in BOOLEAN :
          SubmitSettles(ok) /\ OutsideMCQ
    \/ requestHint /\ OutsideMCQ
    \/ \E r \in mcq_hintInflight, text \in HintTexts :
          HintResolved(r, text) /\ OutsideMCQ
    \/ \E r \in mcq_hintInflight, msg \in ErrMessages :
          HintRejected(r, msg) /\ OutsideMCQ

SpecMCQ ==
    /\ InitQuestion
    /\ [][NextMCQ]_vars

\* C23 as stated: a failed hint request shows an inline error that the user
\* can dismiss (some step clears it without issuing a hint request), leaves
\* the hints and the hint level as they were, ends loading, and leaves the
\* same level to be requested next.
C23_DismissableHintError ==
    /\ [][lastOp'.op = "hintRejected" =>
            /\ mcq_hintError' # NoError
            /\ mcq_hints' = mcq_hints /\ mcq_hintLevel' = mcq_hintLevel
            /\ ~mcq_isLoadingHint'
            /\ RequestedHintLevel' = lastOp'.arg]_vars
    /\ [](HintErrorShown =>
            ENABLED (NextMCQ /\ mcq_hintError' = NoError
                             /\ mcq_hintLog' = mcq_hintLog))

NextGen ==
    \/ ClickGenerate /\ OutsideGen
    \/ \E ch \in GenChallenges :
          GenerateResolved(ch) /\ OutsideGen
    \/ \E f \in GenFailures :
          GenerateRejected(f.status, f.msg) /\ OutsideGen
    \/ \E by \in gen_quotaInflight, ok \in BOOLEAN, remaining \in 0 .. MaxQuota :
          QuotaSettles(by, ok, remaining) /\ OutsideGen
    \/ \E t \in GenTopics :
          setTopic(t) /\ OutsideGen
    \/ \E t \in CustomTopics :
          setCustomTopic(t) /\ OutsideGen
    \/ \E d \in Difficulties :
          setDifficulty(d) /\ OutsideGen
    \/ \E b \in BOOLEAN :
          setIsCustomTopic(b) /\ OutsideGen
    \/ DismissGenError /\ OutsideGen
    \/ \E index \in 0 .. MaxOptions - 1 :
          GenSelectOption(index) /\ OutsideGen
    \/ \E r \in gen_validateInflight, verdict \in Verdicts :
          ValidateResolved(r, verdict) /\ OutsideGen
    \/ \E r \in gen_validateInflight :
          ValidateRejected(r) /\ OutsideGen

SpecGen ==
    /\ InitPage
    /\ [][NextGen]_vars

\* HistoryPanel: history requests, filters, pagination.
NextHist ==
    \/ \E newPage \in 0 .. 3 :
          handlePageChange(newPage) /\ OutsideHist
    \/ RetryHistory /\ OutsideHist
    \/ \E value \in HistDifficulties :
          handleDifficultyChange(value) /\ OutsideHist
    \/ \E value \in HistSorts :
          handleSortChange(value) /\ OutsideHist
    \/ \E value \in SearchTerms :
          handleSearchChange(value) /\ OutsideHist
    \/ clearFilters /\ OutsideHist
    \/ ToggleShowBookmarksOnly /\ OutsideHist
    \/ SearchTimerFires /\ OutsideHist
    \/ \E r \in hist_inflight, resp \in HistResponses :
          HistoryResolved(r, resp) /\ OutsideHist
    \/ \E r \in hist_inflight, msg \in HistFailureMsgs :
          HistoryRejected(r, msg) /\ OutsideHist

SpecHist ==
    /\ InitPage
    /\ [][NextHist]_vars

\* The history requests of the mount and their settlements, which run
\* alongside the side flows while the filters are left alone.
MountRequests ==
    \/ SearchTimerFires /\ OutsideHist
    \/ \E r \in hist_inflight, resp \in HistResponses :
          HistoryResolved(r, resp) /\ OutsideHist
    \/ \E r \in hist_inflight, msg \in HistFailureMsgs :
          HistoryRejected(r, msg) /\ OutsideHist

\* HistoryPanel: the bookmark flow.
NextBookmarks ==
    \/ MountRequests
    \/ ToggleShowBookmarksOnly /\ OutsideHist
    \/ \E ok \in BOOLEAN, ids \in SUBSET HistIds :
          BookmarksFetched(ok, ids) /\ OutsideHist
    \/ \E id \in HistIds :
          toggleBookmark(id) /\ OutsideHist
    \/ \E id \in HistIds, b \in BOOLEAN :
          BookmarkResolved(id, b) /\ OutsideHist
    \/ \E id \in HistIds :
          BookmarkRejected(id) /\ OutsideHist

SpecBookmarks ==
    /\ InitPage
    /\ [][NextBookmarks]_vars

\* HistoryPanel: the export flow.
NextExport ==
    \/ MountRequests
    \/ \E format \in ExportFormats :
          setExportFormat(format) /\ OutsideHist
    \/ \E popupAllowed \in BOOLEAN :
          handleExport(popupAllowed) /\ OutsideHist

SpecExport ==
    /\ InitPage
    /\ [][NextExport]_vars

\* Layout: the quota requests of the shell and the banner they feed.
NextBanner ==
    \/ LayPoll /\ OutsideLayout
    \/ \E r \in lay_quotaInflight, ok \in BOOLEAN, remaining \in 0 .. MaxRemaining :
          LayQuotaSettles(r, ok, remaining) /\ OutsideLayout

SpecBanner ==
    /\ InitPage
    /\ [][NextBanner]_vars

\* useApi: the makeRequest calls, overlapping in every order.
NextApi ==
    \/ \E c \in Calls, method \in Methods :
          makeRequest(c, method) /\ OutsideApi
    \/ \E c \in Calls, token \in Tokens :
          TokenResolved(c, token) /\ OutsideApi
    \/ \E c \in Calls :
          TokenRejected(c) /\ OutsideApi
    \/ \E c \in Calls :
          FetchRejected(c) /\ OutsideApi
    \/ \E c \in Calls, status \in Statuses, detail \in Details, parses \in BOOLEAN :
          FetchResponded(c, status, detail, parses) /\ OutsideApi

SpecApi ==
    /\ InitPage
    /\ [][NextApi]_vars

\* DailyChallenge and the question it shows.
NextDaily ==
    \/ DailyRetry /\ OutsideDaily
    \/ \E ok \in BOOLEAN, data \in DailyResponses, msg \in DailyFailureMsgs :
          DailyFetchSettles(ok, data, msg) /\ OutsideDaily
    \/ \E index \in 0 .. MaxOptions - 1 :
          DailySelectOption(index) /\ OutsideDaily
    \/ \E r \in daily_completeInflight, ok \in BOOLEAN, result \in DailyResults,
          msg \in DailyFailureMsgs :
          DailyCompleteSettles(r, ok, result, msg) /\ OutsideDaily

SpecDaily ==
    /\ InitPage
    /\ [][NextDaily]_vars

\* HistoryPanel: expanding a card and the question view inside it.
NextReview ==
    \/ SearchTimerFires /\ UNCHANGED mcqVars /\ OutsideReview
    \/ \E r \in hist_inflight, resp \in HistResponses :
          HistoryResolved(r, resp) /\ ReviewRemount /\ OutsideReview
    \/ \E r \in hist_inflight, msg \in HistFailureMsgs :
          HistoryRejected(r, msg) /\ ReviewRemount /\ OutsideReview
    \/ ToggleShowBookmarksOnly /\ ReviewRemount /\ OutsideReview
    \/ \E id \in HistIds :
          handleChallengeClick(id) /\ ReviewRemount /\ OutsideReview
    \/ \E index \in 0 .. MaxOptions - 1 :
          ReviewSelectOption(index) /\ OutsideReview

SpecReview ==
    /\ InitPage
    /\ [][NextReview]_vars

\* StatsDashboard: the fetchStats calls and the dashboard they feed.
NextStats ==
    \/ \E tf \in Timeframes :
          setTimeframe(tf) /\ OutsideStats
    \/ StatsRetry /\ OutsideStats
    \/ \E c \in stats_inflight :
          StatsDataArrives(c) /\ OutsideStats
    \/ \E c \in stats_inflight, data \in StatsResponses :
          StatsResolved(c, data) /\ OutsideStats
    \/ \E c \in stats_inflight, msg \in {StatusMsg(500)} :
          StatsRejected(c, msg) /\ OutsideStats

SpecStats ==
    /\ InitPage
    /\ [][NextStats]_vars

\* ChallengeGenerator: one generateChallenge call after another, every issued
\* request settling in the end (the generation request and the quota refreshes).
NextGenCall ==
    \/ ClickGenerate /\ OutsideGen
    \/ \E ch \in GenChallenges :
          GenerateResolved(ch) /\ OutsideGen
    \/ \E f \in GenFailures :
          GenerateRejected(f.status, f.msg) /\ OutsideGen
    \/ \E by \in gen_quotaInflight, ok \in BOOLEAN, remaining \in 0 .. MaxQuota :
          QuotaSettles(by, ok, remaining) /\ OutsideGen
    \/ \E b \in BOOLEAN :
          setIsCustomTopic(b) /\ OutsideGen
    \/ DismissGenError /\ OutsideGen

SpecGenCall ==
    /\ InitPage
    /\ [][NextGenCall]_vars
    /\ WF_vars(\/ \E ch \in GenChallenges : GenerateResolved(ch) /\ OutsideGen
               \/ \E f \in GenFailures : GenerateRejected(f.status, f.msg) /\ OutsideGen)
    /\ WF_vars(\E by \in gen_quotaInflight, ok \in BOOLEAN, remaining \in 0 .. MaxQuota :
                  QuotaSettles(by, ok, remaining) /\ OutsideGen)

\* C30: provided every issued request settles, every generateChallenge call
\* ends with the loading flag false, whichever way the generation request and
\* the follow-up quota refresh go; the flag is true exactly while the
\* generation request or that refresh is outstanding, it rises only when a
\* call starts and falls only when the last of the two settles, and a
\* generated challenge is not on screen while the refresh is outstanding.
C30_LoadingEnds ==
    /\ gen_isLoading ~> ~gen_isLoading
    /\ [](gen_isLoading <=> gen_pc \in {"generating", "refreshing"})
    /\ [](gen_pc = "refreshing" <=> "generate" \in gen_quotaInflight)
    /\ []("generate" \in gen_quotaInflight => ~GenChallengeShown)
    /\ [][~gen_isLoading /\ gen_isLoading' =>
            lastOp'.op = "generate" /\ lastOp'.net /\ gen_pc' = "generating"]_vars
    /\ [][gen_isLoading /\ ~gen_isLoading' =>
            \/ gen_pc = "refreshing" /\ lastOp'.op \in {"quotaResolved", "quotaRejected"}
            \/ gen_pc = "generating" /\ lastOp'.op = "generateRejected" /\ ~lastOp'.net]_vars
    /\ [][lastOp'.op \in {"generateResolved", "generateRejected"} /\ lastOp'.net =>
            gen_isLoading' /\ "generate" \in gen_quotaInflight']_vars

C30_Witness ==
    /\ lastOp.op = "quotaRejected"
    /\ "generate" \notin gen_quotaInflight
    /\ gen_pc = "idle"
    /\ ~gen_isLoading
    /\ gen_error = DailyLimitMsg
    /\ gen_generateCount = 2

====
